---- MODULE Spec2Model ----
(***************************************************************************)
(* A model of the hierarchy resolution and aggregation engine of nexuspm:  *)
(* the WBS parser (parseFile, parseFolder, resolveRelationships,           *)
(* assignWBSNumbers, calculateLevels, validateSingleRoot), the progress    *)
(* roll-up (calculateProgress), the decision scoring (calculateOptionScore,*)
(* rankOptions) and the risk exposure (clampRiskValue, calculateExposure,  *)
(* DecisionParser.parseRisk).                                              *)
(*                                                                         *)
(* JavaScript strings are sequences of UTF-16 code units (naturals), so    *)
(* that comparison, concatenation, splitting and the regular expressions   *)
(* of the source are computed and not assumed.  "p/a.md" is                *)
(* <<112, 47, 97, 46, 109, 100>>.                                          *)
(***************************************************************************)
EXTENDS Integers, Sequences, FiniteSets, TLC

VARIABLES
    vault,       \* Vault.getMarkdownFiles(): the notes, in listing order
    project,     \* the WBSProject built by parseFolder (NoProject before)
    validation,  \* the last result of validateSingleRoot (NoValidation before)
    pItems,      \* calculateProgress: the item map handed to it
    pResult,     \* calculateProgress: <<index of the item, value returned>>
    sOptions,    \* scoring: the options map, in insertion order
    sCriteria,   \* scoring: the criteria list
    sMaxScore,   \* scoring: the maxScore argument
    sScores,     \* scoring: calculateOptionScore of each option (or <<>>)
    sRanked,     \* scoring: the array rankOptions returned (or <<>>)
    rFront,      \* risk: the frontmatter probability and impact of the note
    rRisk,       \* risk: the Risk parseRisk returned (or NoRisk)
    rExposure,   \* risk: calculateExposure(probability, impact) (or NoRisk)
    gRisks,      \* risk register: the risks map, in insertion order
    gCall,       \* risk register: <<the last call and the array it returned>>
    gLevels,     \* getRiskLevel: the last two <<exposure, level>> it classified
    lLink,       \* extractLinkTarget: the reference handed to it
    lTarget,     \* extractLinkTarget: <<the target it returned>>
    cVault,      \* findProjectConfig: the notes, in listing order
    cConfig,     \* findProjectConfig: <<the configuration it returned>>
    vProject,    \* WBSView.currentProject, with the isExpanded flags of its items
    vVisible,    \* the rows of the last render: <<getVisibleItems(currentProject)>>
    hHeadings,   \* the first H1 of the file of each node id, as getFirstH1 finds it now
    hCache,      \* GraphLabelManager.h1Cache, as a function on the cached node ids
    hCalls,      \* the calls of getH1ForNode: their position and local variables
    hFresh,      \* the node ids invalidated or cleared and not asked for since
    dItems,      \* resolveParentPath: the items map, in insertion order
    dParentId,   \* resolveParentPath: the raw target
    dResolved,   \* resolveParentPath: <<the id it returned>>
    wItems,      \* the recursive walks: the item map walked
    wKind,       \* the walk: numbers, levels or progress
    wStack,      \* the walk: its call stack, the innermost call last
    wState,      \* the walk: running, returned or overflow
    isInitialized, \* WBSView.isInitialized
    refreshDebounceTimer, \* WBSView.refreshDebounceTimer: NoTimer for null, or a timer id
    tTimers,     \* the ids of the timers the event loop holds armed
    tChanges,    \* the number of onFileChange calls so far
    tStage,      \* the view is constructed, open or closed
    tSource,     \* what the view shows: nothing, a base file or a folder
    tRefreshed,  \* the number of refresh calls since a timer was last armed
    tLoaded      \* what the last refresh loaded

vars == <<vault, project, validation, pItems, pResult, sOptions, sCriteria,
          sMaxScore, sScores, sRanked, rFront, rRisk, rExposure,
          gRisks, gCall, gLevels, lLink, lTarget,
          cVault, cConfig, vProject, vVisible,
          hHeadings, hCache, hCalls, hFresh, dItems, dParentId, dResolved,
          wItems, wKind, wStack, wState,
          isInitialized, refreshDebounceTimer, tTimers, tChanges, tStage, tSource, tRefreshed, tLoaded>>

wbsVars == <<vault, project, validation>>
progressVars == <<pItems, pResult>>
scoreVars == <<sOptions, sCriteria, sMaxScore, sScores, sRanked>>
riskVars == <<rFront, rRisk, rExposure>>
registerVars == <<gRisks, gCall>>
levelVars == <<gLevels>>
linkVars == <<lLink, lTarget>>
configVars == <<cVault, cConfig>>
viewVars == <<vProject, vVisible>>
labelVars == <<hHeadings, hCache, hCalls, hFresh>>
parentVars == <<dItems, dParentId, dResolved>>
walkVars == <<wItems, wKind, wStack, wState>>
timerVars == <<isInitialized, refreshDebounceTimer, tTimers, tChanges, tStage, tSource, tRefreshed, tLoaded>>

\* the variables outside each part of the program
notWbsVars == <<timerVars, walkVars, viewVars, labelVars, parentVars, configVars, linkVars, progressVars, scoreVars, riskVars, registerVars, levelVars>>
notProgressVars == <<timerVars, walkVars, viewVars, labelVars, parentVars, configVars, linkVars, wbsVars, scoreVars, riskVars, registerVars, levelVars>>
notScoreVars == <<timerVars, walkVars, viewVars, labelVars, parentVars, configVars, linkVars, wbsVars, progressVars, riskVars, registerVars, levelVars>>
notRiskVars == <<timerVars, walkVars, viewVars, labelVars, parentVars, configVars, linkVars, wbsVars, progressVars, scoreVars, registerVars, levelVars>>
notRegisterVars == <<timerVars, walkVars, viewVars, labelVars, parentVars, configVars, linkVars, wbsVars, progressVars, scoreVars, riskVars, levelVars>>
notLevelVars == <<timerVars, walkVars, viewVars, labelVars, parentVars, configVars, linkVars, wbsVars, progressVars, scoreVars, riskVars, registerVars>>
notLinkVars == <<timerVars, walkVars, viewVars, labelVars, parentVars, configVars, wbsVars, progressVars, scoreVars, riskVars, registerVars, levelVars>>
notViewVars == <<timerVars, walkVars, wbsVars, progressVars, scoreVars, riskVars, registerVars, levelVars,
                 linkVars, configVars, labelVars, parentVars>>
notLabelVars == <<timerVars, walkVars, wbsVars, progressVars, scoreVars, riskVars, registerVars, levelVars,
                  linkVars, configVars, viewVars, parentVars>>
notParentVars == <<timerVars, walkVars, wbsVars, progressVars, scoreVars, riskVars, registerVars, levelVars,
                   linkVars, configVars, viewVars, labelVars>>
notWalkVars == <<timerVars, wbsVars, progressVars, scoreVars, riskVars, registerVars, levelVars,
                 linkVars, configVars, viewVars, labelVars, parentVars>>
notTimerVars == <<wbsVars, progressVars, scoreVars, riskVars, registerVars, levelVars,
                  linkVars, configVars, viewVars, labelVars, parentVars, walkVars>>
notConfigVars == <<timerVars, walkVars, viewVars, labelVars, parentVars, wbsVars, progressVars, scoreVars, riskVars, registerVars, levelVars, linkVars>>

(***************************************************************************)
(* Bounds of the model.                                                    *)
(***************************************************************************)
\* the largest number of notes the vault lists
MaxFiles == 3
\* the largest number of items of a map handed to calculateProgress
MaxItems == 3
\* the largest number of criteria and of options of a decision project
MaxCriteria == 2
MaxOptions == 3
\* the largest number a risk note gives as probability or impact
MaxRiskInput == 6
\* the largest number of risks of a risk register
MaxRisks == 3
\* the largest exposure handed to getRiskLevel
MaxExposure == 26

(***************************************************************************)
(* Strings.                                                                *)
(***************************************************************************)
Min(S) == CHOOSE x \in S : \A y \in S : x <= y

\* null and undefined where a string is expected: no string holds a negative
\* code unit, so the value differs from every string, "" included.
Null == <<-1>>

Slash == <<47>>
DotMd == <<46, 109, 100>>

\* a < b for strings: the order of Array.prototype.sort() without comparator
\* (UTF-16 code units, a proper prefix first)
StrLess(a, b) ==
    LET n == IF Len(a) < Len(b) THEN Len(a) ELSE Len(b)
        d == {i \in 1..n : a[i] # b[i]}
    IN  IF d = {} THEN Len(a) < Len(b) ELSE a[Min(d)] < b[Min(d)]

StartsWith(s, p) == Len(p) <= Len(s) /\ SubSeq(s, 1, Len(p)) = p

EndsWith(s, p) == Len(p) <= Len(s) /\ SubSeq(s, Len(s) - Len(p) + 1, Len(s)) = p

\* s.split('/').pop(): what follows the last "/"
LastSegment(s) ==
    LET cut == {i \in 1..Len(s) : s[i] = 47}
    IN  IF cut = {} THEN s
        ELSE SubSeq(s, (CHOOSE i \in cut : \A j \in cut : j <= i) + 1, Len(s))

\* s.replace(pat, ''): the first occurrence of the string pat removed
RemoveFirst(s, pat) ==
    LET at == {i \in 1..(Len(s) - Len(pat) + 1) : SubSeq(s, i, i + Len(pat) - 1) = pat}
    IN  IF at = {} THEN s
        ELSE SubSeq(s, 1, Min(at) - 1) \o SubSeq(s, Min(at) + Len(pat), Len(s))

\* s.replace(/\.md$/, '')
RemoveMdSuffix(s) == IF EndsWith(s, DotMd) THEN SubSeq(s, 1, Len(s) - 3) ELSE s

\* the last index of the longest run of code units outside stop that starts
\* at index from (from - 1 when the run is empty)
RunEnd(s, from, stop) ==
    LET bad == {k \in from..Len(s) : s[k] \in stop}
    IN  IF bad = {} THEN Len(s) ELSE Min(bad) - 1

\* String(n) for a natural n: its decimal digits
RECURSIVE NatToString(_)
NatToString(n) ==
    IF n < 10 THEN <<48 + n>> ELSE NatToString(n \div 10) \o <<48 + (n % 10)>>

\* s.toLowerCase(), on the letters A..Z
ToLowerCase(s) == [i \in 1..Len(s) |-> IF s[i] \in 65..90 THEN s[i] + 32 ELSE s[i]]

\* s.trim(): white space and line terminators removed from both ends
WhiteSpace == {9, 10, 11, 12, 13, 32, 160, 8232, 8233, 12288, 65279}

Trim(s) ==
    LET ink == {i \in 1..Len(s) : s[i] \notin WhiteSpace}
    IN  IF ink = {} THEN <<>>
        ELSE SubSeq(s, Min(ink), CHOOSE i \in ink : \A j \in ink : j <= i)

(***************************************************************************)
(* Frontmatter values: what the YAML of a note can hold.                   *)
(***************************************************************************)
Undefined == [t |-> "undefined", s |-> <<>>, n |-> 0, a |-> <<>>]
JsNull == [t |-> "null", s |-> <<>>, n |-> 0, a |-> <<>>]
Str(s) == [t |-> "string", s |-> s, n |-> 0, a |-> <<>>]
Num(n) == [t |-> "number", s |-> <<>>, n |-> n, a |-> <<>>]
\* NaN: typeof NaN is 'number'
NaN == [t |-> "number", s |-> <<110, 97, 110>>, n |-> 0, a |-> <<>>]
Bool(b) == [t |-> "boolean", s |-> <<>>, n |-> IF b THEN 1 ELSE 0, a |-> <<>>]
Arr(a) == [t |-> "array", s |-> <<>>, n |-> 0, a |-> a]
Obj == [t |-> "object", s |-> <<>>, n |-> 0, a |-> <<>>]

IsNumber(v) == v.t = "number"
IsNaN(v) == v = NaN
IsString(v) == v.t = "string"

\* Math.min and Math.max of a number and a frontmatter number: NaN if it is NaN
MathMin(k, v) == IF IsNaN(v) THEN NaN ELSE Num(IF k < v.n THEN k ELSE v.n)
MathMax(k, v) == IF IsNaN(v) THEN NaN ELSE Num(IF k > v.n THEN k ELSE v.n)

(***************************************************************************)
(* WBS data model (wbsDataModel.ts).                                       *)
(***************************************************************************)
\* createDefaultWBSItem(id, title)
createDefaultWBSItem(id) ==
    [id |-> id, parentId |-> Null, childIds |-> <<>>, wbsNumber |-> <<>>,
     status |-> "not-started", progress |-> Num(0), level |-> 0,
     isExpanded |-> TRUE]

StatusCompleted ==
    {<<99, 111, 109, 112, 108, 101, 116, 101, 100>>,   \* completed
     <<100, 111, 110, 101>>,                            \* done
     <<99, 111, 109, 112, 108, 101, 116, 101>>,         \* complete
     <<23436, 20102>>, <<28168>>, <<28168, 12415>>}     \* Japanese forms
StatusInProgress ==
    {<<105, 110, 45, 112, 114, 111, 103, 114, 101, 115, 115>>,  \* in-progress
     <<105, 110, 112, 114, 111, 103, 114, 101, 115, 115>>,      \* inprogress
     <<105, 110, 32, 112, 114, 111, 103, 114, 101, 115, 115>>,  \* in progress
     <<100, 111, 105, 110, 103>>,                               \* doing
     <<36914, 34892, 20013>>, <<20316, 26989, 20013>>, <<23550, 24540, 20013>>}
StatusBlocked ==
    {<<98, 108, 111, 99, 107, 101, 100>>,               \* blocked
     <<104, 111, 108, 100>>,                            \* hold
     <<111, 110, 32, 104, 111, 108, 100>>,              \* on hold
     <<12502, 12525, 12483, 12463>>, <<12502, 12525, 12483, 12463, 20013>>,
     <<20445, 30041>>, <<24453, 12385>>}
StatusCancelled ==
    {<<99, 97, 110, 99, 101, 108, 108, 101, 100>>,      \* cancelled
     <<99, 97, 110, 99, 101, 108, 101, 100>>,           \* canceled
     <<12461, 12515, 12531, 12475, 12523>>, <<20013, 27490>>, <<21462, 28040>>}

\* normalizeStatus(status), for a string status
normalizeStatus(status) ==
    LET normalized == Trim(ToLowerCase(status))
    IN  IF status = <<>> THEN "not-started"
        ELSE IF normalized \in StatusCompleted THEN "completed"
        ELSE IF normalized \in StatusInProgress THEN "in-progress"
        ELSE IF normalized \in StatusBlocked THEN "blocked"
        ELSE IF normalized \in StatusCancelled THEN "cancelled"
        ELSE "not-started"

(***************************************************************************)
(* WBSParser (wbsParser.ts).                                               *)
(***************************************************************************)
\* the first capture of /\[\[([^\]|]+)(?:\|[^\]]+)?\]\]/ when the match
\* starts at index i, else Null
WikiMatchAt(link, i) ==
    LET j == RunEnd(link, i + 2, {93, 124})      \* the end of ([^\]|]+)
        k == RunEnd(link, j + 2, {93})           \* the end of [^\]]+
        closes(q) == q + 1 <= Len(link) /\ link[q] = 93 /\ link[q + 1] = 93
    IN  IF /\ i + 1 <= Len(link) /\ link[i] = 91 /\ link[i + 1] = 91
           /\ j >= i + 2
           /\ \/ closes(j + 1)
              \/ /\ j + 1 <= Len(link) /\ link[j + 1] = 124
                 /\ k >= j + 2
                 /\ closes(k + 1)
        THEN SubSeq(link, i + 2, j)
        ELSE Null

\* the first capture of /\[[^\]]*\]\(([^)]+)\)/ when the match starts at
\* index i, else Null
MdMatchAt(link, i) ==
    LET q == RunEnd(link, i + 1, {93}) + 1       \* the "]" ending [^\]]*
        r == RunEnd(link, q + 2, {41})           \* the end of ([^)]+)
    IN  IF /\ i <= Len(link) /\ link[i] = 91
           /\ q + 1 <= Len(link) /\ link[q] = 93 /\ link[q + 1] = 40
           /\ r >= q + 2
           /\ r + 1 <= Len(link) /\ link[r + 1] = 41
        THEN SubSeq(link, q + 2, r)
        ELSE Null

\* extractLinkTarget with the markdown link tried before the wiki link
extractLinkTarget_MdFirst(link) ==
    LET wiki == {i \in 1..Len(link) : WikiMatchAt(link, i) # Null}
        md == {i \in 1..Len(link) : MdMatchAt(link, i) # Null}
    IN  IF link = <<>> \/ link = Null THEN Null
        ELSE IF md # {} THEN RemoveMdSuffix(MdMatchAt(link, Min(md)))
        ELSE IF wiki # {} THEN WikiMatchAt(link, Min(wiki))
        ELSE link

\* WBSParser.extractLinkTarget(link); !link holds for '', null and undefined
extractLinkTarget(link) ==
    LET wiki == {i \in 1..Len(link) : WikiMatchAt(link, i) # Null}
        md == {i \in 1..Len(link) : MdMatchAt(link, i) # Null}
    IN  IF link = <<>> \/ link = Null THEN Null
        ELSE IF wiki # {} THEN WikiMatchAt(link, Min(wiki))
        ELSE IF md # {} THEN RemoveMdSuffix(MdMatchAt(link, Min(md)))
        ELSE link

\* the truthiness of one element of an array-valued completion field
CompletedElement(val) ==
    CASE val.t = "boolean" -> val.n = 1
      [] val.t = "number" -> val # Num(0)
      [] val.t = "string" ->
            LET s == Trim(val.s) IN
            /\ ToLowerCase(s) # <<>>
            /\ ToLowerCase(s) # <<102, 97, 108, 115, 101>>      \* 'false'
            /\ ToLowerCase(s) # <<48>>                          \* '0'
            /\ ToLowerCase(s) # <<45, 32, 91, 32, 93>>          \* '- [ ]'
      [] OTHER -> val.t \in {"array", "object"}

\* isCompleted with every non-empty array taken as set
IsCompleted_NonEmpty(completedField) ==
    CASE completedField.t = "boolean" -> completedField.n = 1
      [] completedField.t = "string" ->
            LET v == ToLowerCase(Trim(completedField.s)) IN
            v # <<>> /\ v # <<102, 97, 108, 115, 101>> /\ v # <<48>>
      [] completedField.t = "number" -> completedField # Num(0)
      [] completedField.t = "array" -> Len(completedField.a) > 0
      [] completedField.t = "object" -> TRUE
      [] OTHER -> FALSE

\* isCompleted of parseFile, for a completion field that is not undefined
IsCompleted(completedField) ==
    CASE completedField.t = "boolean" -> completedField.n = 1
      [] completedField.t = "string" ->
            LET v == ToLowerCase(Trim(completedField.s)) IN
            v # <<>> /\ v # <<102, 97, 108, 115, 101>> /\ v # <<48>>
      [] completedField.t = "number" -> completedField # Num(0)
      [] completedField.t = "array" ->
            \E i \in 1..Len(completedField.a) : CompletedElement(completedField.a[i])
      [] completedField.t = "object" -> TRUE
      [] OTHER -> FALSE

\* parseFile with the status rule applied after the completion rule
parseFile_StatusLast(file) ==
    LET item == createDefaultWBSItem(file.path)
        parentId == IF IsString(file.parent) /\ file.parent.s # <<>>
                    THEN extractLinkTarget(file.parent.s) ELSE item.parentId
        done == file.completed # Undefined /\ IsCompleted(file.completed)
        status1 == IF IsString(file.status) /\ file.status.s # <<>>
                   THEN normalizeStatus(file.status.s)
                   ELSE IF done THEN "completed" ELSE item.status
        progress1 == IF IsNumber(file.progress)
                     THEN MathMax(0, MathMin(100, file.progress)) ELSE item.progress
        wbsNumber == IF IsString(file.wbsNumber) /\ file.wbsNumber.s # <<>>
                     THEN file.wbsNumber.s ELSE item.wbsNumber
    IN  IF ~file.hasFm THEN item
        ELSE [item EXCEPT !.parentId = parentId,
                          !.status = status1,
                          !.progress = IF done THEN Num(100) ELSE progress1,
                          !.wbsNumber = wbsNumber]

\* WBSParser.parseFile(file): file is [path, hasFm, parent, status, progress,
\* completed, wbsNumber], the last five being frontmatter values
parseFile(file) ==
    LET item == createDefaultWBSItem(file.path)
        parentId == IF IsString(file.parent) /\ file.parent.s # <<>>
                    THEN extractLinkTarget(file.parent.s) ELSE item.parentId
        status1 == IF IsString(file.status) /\ file.status.s # <<>>
                   THEN normalizeStatus(file.status.s) ELSE item.status
        progress1 == IF IsNumber(file.progress)
                     THEN MathMax(0, MathMin(100, file.progress)) ELSE item.progress
        done == file.completed # Undefined /\ IsCompleted(file.completed)
        wbsNumber == IF IsString(file.wbsNumber) /\ file.wbsNumber.s # <<>>
                     THEN file.wbsNumber.s ELSE item.wbsNumber
    IN  IF ~file.hasFm THEN item
        ELSE [item EXCEPT !.parentId = parentId,
                          !.status = IF done THEN "completed" ELSE status1,
                          !.progress = IF done THEN Num(100) ELSE progress1,
                          !.wbsNumber = wbsNumber]

\* Map<string, WBSItem>: the items in insertion order
MapHas(items, id) == \E i \in 1..Len(items) : items[i].id = id
MapIndex(items, id) == CHOOSE i \in 1..Len(items) : items[i].id = id
MapSet(items, id, item) ==
    IF MapHas(items, id) THEN [items EXCEPT ![MapIndex(items, id)] = item]
    ELSE Append(items, item)

\* Array.prototype.sort() of an array of strings
RECURSIVE SortStrings(_)
SortStrings(seq) ==
    IF Len(seq) <= 1 THEN seq
    ELSE LET front == SortStrings(SubSeq(seq, 1, Len(seq) - 1))
             x == seq[Len(seq)]
             k == Cardinality({i \in 1..Len(front) : ~StrLess(x, front[i])})
         IN  SubSeq(front, 1, k) \o <<x>> \o SubSeq(front, k + 1, Len(front))

\* WBSParser.resolveParentPath(parentId, folderPath, items)
resolveParentPath(parentId, folderPath, items) ==
    LET possiblePaths == <<folderPath \o Slash \o parentId \o DotMd,
                           folderPath \o Slash \o parentId,
                           parentId \o DotMd>>
        hit == {k \in 1..3 : MapHas(items, possiblePaths[k])}
        byName == {i \in 1..Len(items) :
                      RemoveFirst(LastSegment(items[i].id), DotMd) = parentId}
    IN  IF MapHas(items, parentId) THEN parentId
        ELSE IF hit # {} THEN possiblePaths[Min(hit)]
        ELSE IF byName # {} THEN items[Min(byName)].id
        ELSE Null

\* item.parentId is truthy: neither null nor the empty string
Truthy(s) == s # Null /\ s # <<>>

\* the first loop of resolveRelationships, from the i-th item on
RECURSIVE ResolveFrom(_, _, _)
ResolveFrom(items, folderPath, i) ==
    IF i > Len(items) THEN items
    ELSE LET item == items[i]
             resolved == resolveParentPath(item.parentId, folderPath, items)
         IN  IF ~Truthy(item.parentId) THEN ResolveFrom(items, folderPath, i + 1)
             ELSE IF resolved # Null /\ MapHas(items, resolved)
             THEN LET linked == [items EXCEPT ![i].parentId = resolved]
                      p == MapIndex(items, resolved)
                      pushed == IF \E c \in 1..Len(linked[p].childIds) :
                                       linked[p].childIds[c] = item.id
                                THEN linked
                                ELSE [linked EXCEPT ![p].childIds = Append(@, item.id)]
                  IN  ResolveFrom(pushed, folderPath, i + 1)
             ELSE ResolveFrom([items EXCEPT ![i].parentId = Null], folderPath, i + 1)

\* the ids pushed by the second loop of resolveRelationships, in map order
RECURSIVE RootsFrom(_, _)
RootsFrom(items, i) ==
    IF i > Len(items) THEN <<>>
    ELSE (IF ~Truthy(items[i].parentId) THEN <<items[i].id>> ELSE <<>>)
         \o RootsFrom(items, i + 1)

\* resolveRelationships without the final rootItemIds.sort()
resolveRelationships_NoSort(proj, folderPath) ==
    LET items == ResolveFrom(proj.items, folderPath, 1)
    IN  [proj EXCEPT !.items = items,
                     !.rootItemIds = proj.rootItemIds \o RootsFrom(items, 1)]

\* resolveRelationships collecting the roots before the parents are resolved
resolveRelationships_RootsFirst(proj, folderPath) ==
    LET items == ResolveFrom(proj.items, folderPath, 1)
    IN  [proj EXCEPT !.items = items,
                     !.rootItemIds = SortStrings(proj.rootItemIds \o RootsFrom(proj.items, 1))]

\* WBSParser.resolveRelationships(project, folderPath)
resolveRelationships(proj, folderPath) ==
    LET items == ResolveFrom(proj.items, folderPath, 1)
    IN  [proj EXCEPT !.items = items,
                     !.rootItemIds = SortStrings(proj.rootItemIds \o RootsFrom(items, 1))]

\* assignNumber(itemIds, prefix) of assignWBSNumbers, from the k-th id on
RECURSIVE AssignNumber(_, _, _, _)
AssignNumber(items, itemIds, prefix, k) ==
    IF k > Len(itemIds) THEN items
    ELSE IF ~MapHas(items, itemIds[k]) THEN AssignNumber(items, itemIds, prefix, k + 1)
    ELSE LET i == MapIndex(items, itemIds[k])
             number == IF items[i].wbsNumber # <<>> THEN items[i].wbsNumber
                       ELSE IF prefix # <<>> THEN prefix \o <<46>> \o NatToString(k)
                       ELSE NatToString(k)
             sorted == SortStrings(items[i].childIds)
             numbered == [items EXCEPT ![i].wbsNumber = number]
             below == IF Len(items[i].childIds) > 0
                      THEN AssignNumber([numbered EXCEPT ![i].childIds = sorted],
                                        sorted, number, 1)
                      ELSE numbered
         IN  AssignNumber(below, itemIds, prefix, k + 1)

\* assignWBSNumbers numbering the roots below the prefix "0"
assignWBSNumbers_Prefixed(proj) ==
    [proj EXCEPT !.items = AssignNumber(proj.items, proj.rootItemIds, <<48>>, 1)]

\* WBSParser.assignWBSNumbers(project)
assignWBSNumbers(proj) ==
    [proj EXCEPT !.items = AssignNumber(proj.items, proj.rootItemIds, <<>>, 1)]

\* calculateLevel(itemId, level) of calculateLevels; LevelChildren is its loop
\* over item.childIds, from the k-th child on
RECURSIVE CalculateLevel(_, _, _)
RECURSIVE LevelChildren(_, _, _, _)
CalculateLevel(items, itemId, level) ==
    IF ~MapHas(items, itemId) THEN items
    ELSE LET i == MapIndex(items, itemId)
         IN  LevelChildren([items EXCEPT ![i].level = level], i, level + 1, 1)
LevelChildren(items, i, level, k) ==
    IF k > Len(items[i].childIds) THEN items
    ELSE LevelChildren(CalculateLevel(items, items[i].childIds[k], level), i, level, k + 1)

\* the loop of calculateLevels over rootItemIds, from the k-th root on
RECURSIVE LevelRoots(_, _, _)
LevelRoots(items, rootItemIds, k) ==
    IF k > Len(rootItemIds) THEN items
    ELSE LevelRoots(CalculateLevel(items, rootItemIds[k], 0), rootItemIds, k + 1)

\* WBSParser.calculateLevels(project)
calculateLevels(proj) ==
    [proj EXCEPT !.items = LevelRoots(proj.items, proj.rootItemIds, 1)]

\* the filter of parseFolder on the vault's files
InFolder(path, folderPath) ==
    StartsWith(path, folderPath \o Slash) \/ StartsWith(path, folderPath)

\* the parse loop of parseFolder, from the i-th file of the vault on
RECURSIVE ParseFiles(_, _, _, _)
ParseFiles(items, files, folderPath, i) ==
    IF i > Len(files) THEN items
    ELSE IF ~InFolder(files[i].path, folderPath)
    THEN ParseFiles(items, files, folderPath, i + 1)
    ELSE ParseFiles(MapSet(items, files[i].path, parseFile(files[i])),
                    files, folderPath, i + 1)

\* WBSParser.parseFolder(folderPath), on the files the vault lists
parseFolder(files, folderPath) ==
    LET parsed == [id |-> folderPath, rootItemIds |-> <<>>,
                   items |-> ParseFiles(<<>>, files, folderPath, 1)]
    IN  calculateLevels(assignWBSNumbers(resolveRelationships(parsed, folderPath)))

\* validateSingleRoot reporting multiple roots only from three roots on
validateSingleRoot_OffByOne(proj) ==
    IF Len(proj.rootItemIds) = 0
    THEN [valid |-> FALSE, error |-> "no-root", hasErrorFilePaths |-> FALSE,
          errorFilePaths |-> <<>>]
    ELSE IF Len(proj.rootItemIds) > 2
    THEN [valid |-> FALSE, error |-> "multiple-roots", hasErrorFilePaths |-> TRUE,
          errorFilePaths |-> proj.rootItemIds]
    ELSE [valid |-> TRUE, error |-> "none", hasErrorFilePaths |-> FALSE,
          errorFilePaths |-> <<>>]

\* WBSParser.validateSingleRoot(project): error names the message returned,
\* hasErrorFilePaths tells whether the result has an errorFilePaths property
validateSingleRoot(proj) ==
    IF Len(proj.rootItemIds) = 0
    THEN [valid |-> FALSE, error |-> "no-root", hasErrorFilePaths |-> FALSE,
          errorFilePaths |-> <<>>]
    ELSE IF Len(proj.rootItemIds) > 1
    THEN [valid |-> FALSE, error |-> "multiple-roots", hasErrorFilePaths |-> TRUE,
          errorFilePaths |-> proj.rootItemIds]
    ELSE [valid |-> TRUE, error |-> "none", hasErrorFilePaths |-> FALSE,
          errorFilePaths |-> <<>>]

(***************************************************************************)
(* The WBS specification: a vault of notes, parsed and validated.          *)
(***************************************************************************)
\* the project folder "p" and the notes "p/a.md" .. "p/d.md" a vault may hold
Folder == <<112>>
PathA == <<112, 47, 97, 46, 109, 100>>
PathB == <<112, 47, 98, 46, 109, 100>>
PathC == <<112, 47, 99, 46, 109, 100>>
PathD == <<112, 47, 100, 46, 109, 100>>
Paths == {PathA, PathB, PathC, PathD}

\* the parent property of a note: none, "[[a]]", "[x](p/b.md)", "c", "[x](.md)"
ParentChoices ==
    {Undefined,
     Str(<<91, 91, 97, 93, 93>>),
     Str(<<91, 120, 93, 40, 112, 47, 98, 46, 109, 100, 41>>),
     Str(<<99>>),
     Str(<<91, 120, 93, 40, 46, 109, 100, 41>>)}

\* the wbs-number property of a note: none, or the authored number "1"
WbsChoices == {Undefined, Str(<<49>>)}

Note(path, parent, wbsNumber) ==
    [path |-> path, hasFm |-> TRUE, parent |-> parent, status |-> Undefined,
     progress |-> Undefined, completed |-> Undefined, wbsNumber |-> wbsNumber]

DistinctPaths(files) ==
    \A i, j \in 1..Len(files) : i # j => files[i].path # files[j].path

\* the listings of at most MaxFiles notes in which no note authors a number
PlainVaults ==
    UNION {{v \in [1..n -> {Note(p, par, Undefined) : p \in Paths, par \in ParentChoices}] :
               DistinctPaths(v)} : n \in 0..MaxFiles}

\* the listings of fewer than MaxFiles notes, each of which may author its number
AuthoredVaults ==
    UNION {{v \in [1..n -> {Note(p, par, w) : p \in {PathA, PathB, PathC},
                                              par \in ParentChoices, w \in WbsChoices}] :
               DistinctPaths(v)} : n \in 1..(MaxFiles - 1)}

NoProject == [id |-> Null, rootItemIds |-> <<>>, items |-> <<>>]
NoValidation == [roots |-> <<>>, result |-> [valid |-> FALSE, error |-> "not-called",
                 hasErrorFilePaths |-> FALSE, errorFilePaths |-> <<>>]]

IdleProgress == pItems = <<>> /\ pResult = <<>>
IdleScore == sOptions = <<>> /\ sCriteria = <<>> /\ sMaxScore = 0
             /\ sScores = <<>> /\ sRanked = <<>>
IdleRisk == rFront = <<>> /\ rRisk = <<>> /\ rExposure = <<>>
IdleWBS == vault = <<>> /\ project = NoProject /\ validation = NoValidation
IdleRegister == gRisks = <<>> /\ gCall = <<>>
IdleLevel == gLevels = <<>>
IdleLink == lLink = <<>> /\ lTarget = <<>>
IdleConfig == cVault = <<>> /\ cConfig = <<>>
IdleView == vProject = NoProject /\ vVisible = <<>>
IdleLabel == hHeadings = <<>> /\ hCache = <<>> /\ hCalls = <<>> /\ hFresh = {}
IdleParent == dItems = <<>> /\ dParentId = <<>> /\ dResolved = <<>>
IdleWalk == wItems = <<>> /\ wKind = "none" /\ wStack = <<>> /\ wState = "none"
IdleTimer == isInitialized = FALSE /\ refreshDebounceTimer = 0 /\ tTimers = {} /\ tChanges = 0
             /\ tStage = "none" /\ tSource = "none" /\ tRefreshed = 0 /\ tLoaded = "none"

\* every part of the program but one is idle
IdleExcept(part) ==
    /\ IF part = "wbs" THEN TRUE ELSE IdleWBS
    /\ IF part = "progress" THEN TRUE ELSE IdleProgress
    /\ IF part = "score" THEN TRUE ELSE IdleScore
    /\ IF part = "risk" THEN TRUE ELSE IdleRisk
    /\ IF part = "register" THEN TRUE ELSE IdleRegister
    /\ IF part = "level" THEN TRUE ELSE IdleLevel
    /\ IF part = "link" THEN TRUE ELSE IdleLink
    /\ IF part = "config" THEN TRUE ELSE IdleConfig
    /\ IF part = "view" THEN TRUE ELSE IdleView
    /\ IF part = "label" THEN TRUE ELSE IdleLabel
    /\ IF part = "parent" THEN TRUE ELSE IdleParent
    /\ IF part = "walk" THEN TRUE ELSE IdleWalk
    /\ IF part = "timer" THEN TRUE ELSE IdleTimer

InitWBS ==
    /\ vault \in PlainVaults \cup AuthoredVaults
    /\ project = NoProject
    /\ validation = NoValidation
    /\ IdleExcept("wbs")

\* WBSView.loadFolder: the project is rebuilt from the vault
ParseFolder ==
    /\ project' = parseFolder(vault, Folder)
    /\ UNCHANGED <<vault, validation, notWbsVars>>

\* WBSView.render: the single-root check of the current project
ValidateSingleRoot ==
    /\ project # NoProject
    /\ validation' = [roots |-> project.rootItemIds, result |-> validateSingleRoot(project)]
    /\ UNCHANGED <<vault, project, notWbsVars>>

NextWBS == ParseFolder \/ ValidateSingleRoot

SpecWBS == InitWBS /\ [][NextWBS]_vars

(***************************************************************************)
(* Claims about the WBS parser, checked under SpecWBS.                     *)
(***************************************************************************)
Built == project # NoProject
Items == {project.items[i] : i \in 1..Len(project.items)}
RootSet == {project.rootItemIds[i] : i \in 1..Len(project.rootItemIds)}
SeqSet(seq) == {seq[i] : i \in 1..Len(seq)}
NoteOf(id) == vault[CHOOSE i \in 1..Len(vault) : vault[i].path = id]

\* the parent target a note declares; "" when it declares none
Target(note) ==
    IF note.hasFm /\ IsString(note.parent) /\ note.parent.s # <<>>
    THEN extractLinkTarget(note.parent.s) ELSE <<>>

\* some item of the project is named by the target t
Resolvable(t) ==
    \E it \in Items :
        \/ it.id \in {t, Folder \o Slash \o t \o DotMd, Folder \o Slash \o t, t \o DotMd}
        \/ RemoveFirst(LastSegment(it.id), DotMd) = t

Dangling(note) == Target(note) # <<>> /\ ~Resolvable(Target(note))

NoAuthoredNumber ==
    \A i \in 1..Len(vault) : ~(IsString(vault[i].wbsNumber) /\ vault[i].wbsNumber.s # <<>>)

\* C1: validateSingleRoot answers valid exactly for one root; for no root it
\* answers invalid with an error message and no errorFilePaths; for N > 1
\* roots it answers invalid with errorFilePaths holding exactly the N root
\* ids; and the project it was called on is still the built project.
C1_ValidateSingleRoot ==
    validation # NoValidation =>
        LET n == Len(validation.roots)
            r == validation.result
        IN  /\ r.valid <=> n = 1
            /\ n = 0 => ~r.valid /\ r.error = "no-root" /\ ~r.hasErrorFilePaths
            /\ n > 1 => /\ ~r.valid /\ r.error = "multiple-roots"
                        /\ r.hasErrorFilePaths
                        /\ Len(r.errorFilePaths) = n
                        /\ SeqSet(r.errorFilePaths) = SeqSet(validation.roots)
            /\ n = 1 => r.error = "none" /\ ~r.hasErrorFilePaths
            /\ Built /\ project.rootItemIds = validation.roots
            /\ project = parseFolder(vault, Folder)

\* a project with three roots was validated
C1_Witness ==
    /\ validation # NoValidation
    /\ Len(validation.roots) = 3
    /\ validation.result.hasErrorFilePaths

C3_ParentChildLinks ==
    Built =>
        /\ \A c, p \in Items : (c.id \in SeqSet(p.childIds)) <=> (c.parentId = p.id)
        /\ \A c \in Items : c.parentId # Null => \E p \in Items : p.id = c.parentId
        /\ \A p \in Items : Cardinality(SeqSet(p.childIds)) = Len(p.childIds)

\* C4: after parseFolder every root has level 0 and every item with a resolved
\* parent has its parent's level plus 1.
C4_Levels ==
    Built =>
        /\ \A it \in Items : it.id \in RootSet => it.level = 0
        /\ \A c, p \in Items : c.parentId = p.id => c.level = p.level + 1

\* C5: when no note authors a wbs-number, the i-th root has the number "i" and
\* the k-th child in the id-sorted childIds of an item has the number
\* "<number of the item>.k".
C5_AutoNumbers ==
    (Built /\ NoAuthoredNumber) =>
        /\ \A i \in 1..Len(project.rootItemIds) :
              \A it \in Items :
                  it.id = project.rootItemIds[i] => it.wbsNumber = NatToString(i)
        /\ \A p, c \in Items :
              \A k \in 1..Len(p.childIds) :
                  SortStrings(p.childIds)[k] = c.id =>
                      c.wbsNumber = p.wbsNumber \o <<46>> \o NatToString(k)

(***************************************************************************)
(* Progress roll-up (wbsDataModel.ts).                                     *)
(***************************************************************************)
\* the leaf branch of calculateProgress with >= in place of >
LeafProgress_NotStrict(item) ==
    IF ~IsNaN(item.progress) /\ item.progress.n >= 0 THEN item.progress.n
    ELSE CASE item.status = "completed" -> 100
           [] item.status = "in-progress" -> 50
           [] item.status = "blocked" ->
                 IF IsNaN(item.progress) \/ item.progress.n = 0 THEN 0
                 ELSE item.progress.n
           [] item.status = "cancelled" -> 0
           [] OTHER -> 0

\* calculateProgress of an item without children
LeafProgress(item) ==
    IF ~IsNaN(item.progress) /\ item.progress.n > 0 THEN item.progress.n
    ELSE CASE item.status = "completed" -> 100
           [] item.status = "in-progress" -> 50
           [] item.status = "blocked" ->                \* item.progress || 0
                 IF IsNaN(item.progress) \/ item.progress.n = 0 THEN 0
                 ELSE item.progress.n
           [] item.status = "cancelled" -> 0
           [] OTHER -> 0

\* the final expression of calculateProgress with Math.floor for Math.round
RoundMean_Floor(totalProgress, childCount) ==
    IF childCount > 0 THEN totalProgress \div childCount ELSE 0

\* childCount > 0 ? Math.round(totalProgress / childCount) : 0
RoundMean(totalProgress, childCount) ==
    IF childCount > 0 THEN (2 * totalProgress + childCount) \div (2 * childCount) ELSE 0

\* calculateProgress(item, items); ChildTotals is its loop over item.childIds
\* from the k-th child on and yields <<totalProgress, childCount>>
RECURSIVE calculateProgress(_, _)
RECURSIVE ChildTotals(_, _, _, _)
calculateProgress(item, items) ==
    IF Len(item.childIds) = 0 THEN LeafProgress(item)
    ELSE LET t == ChildTotals(item, items, 1, <<0, 0>>)
         IN  RoundMean(t[1], t[2])
ChildTotals(item, items, k, acc) ==
    IF k > Len(item.childIds) THEN acc
    ELSE IF ~MapHas(items, item.childIds[k]) THEN ChildTotals(item, items, k + 1, acc)
    ELSE LET child == items[MapIndex(items, item.childIds[k])]
         IN  ChildTotals(item, items, k + 1,
                         <<acc[1] + calculateProgress(child, items), acc[2] + 1>>)

(***************************************************************************)
(* The progress specification: item maps as the parser builds them (each   *)
(* item below an earlier one or a root), one of whose items may also list  *)
(* a child id that is not in the map; calculateProgress is applied to      *)
(* every item.                                                             *)
(***************************************************************************)
ItemId(k) == <<96 + k>>          \* "a", "b", "c", ...
MissingId == <<122, 122>>        \* "zz", the id of no item

Statuses == {"not-started", "in-progress", "completed", "blocked", "cancelled"}

\* status and progress of the items of a one-item map
LeafKinds == {[status |-> st, progress |-> pr] :
                 st \in Statuses, pr \in {Num(0), Num(1), Num(75), Num(100), NaN}}

\* status and progress of the items of the larger maps
TreeKinds == {[status |-> "completed", progress |-> Num(0)],
              [status |-> "not-started", progress |-> Num(0)],
              [status |-> "in-progress", progress |-> Num(75)]}

\* the children of item k when par[j] is the parent of item j (0: none)
RECURSIVE ChildrenOf(_, _, _)
ChildrenOf(par, k, j) ==
    IF j > Len(par) THEN <<>>
    ELSE (IF par[j] = k THEN <<ItemId(j)>> ELSE <<>>) \o ChildrenOf(par, k, j + 1)

ProgressMap(par, kind, ghost) ==
    [k \in 1..Len(par) |->
        [createDefaultWBSItem(ItemId(k)) EXCEPT
            !.parentId = IF par[k] = 0 THEN Null ELSE ItemId(par[k]),
            !.childIds = ChildrenOf(par, k, 1)
                         \o (IF ghost /\ k = 1 THEN <<MissingId>> ELSE <<>>),
            !.status = kind[k].status,
            !.progress = kind[k].progress]]

ProgressMaps ==
    {ProgressMap(<<0>>, <<kind>>, ghost) : kind \in LeafKinds, ghost \in BOOLEAN}
    \cup UNION {{ProgressMap(par, kind, ghost) :
                    par \in {q \in [1..n -> 0..(n - 1)] : \A k \in 1..n : q[k] < k},
                    kind \in [1..n -> TreeKinds],
                    ghost \in BOOLEAN} : n \in 2..MaxItems}

InitProgress ==
    /\ pItems \in ProgressMaps
    /\ pResult = <<>>
    /\ IdleExcept("progress")

\* renderTaskRow: the progress shown for the k-th item of the map
CalculateProgress(k) ==
    /\ pResult' = <<k, calculateProgress(pItems[k], pItems)>>
    /\ UNCHANGED <<pItems, notProgressVars>>

NextProgress == \E k \in 1..Len(pItems) : CalculateProgress(k)

SpecProgress == InitProgress /\ [][NextProgress]_vars

(***************************************************************************)
(* Claims about calculateProgress, checked under SpecProgress.             *)
(***************************************************************************)
ProgressItem == pItems[pResult[1]]
ProgressValue == pResult[2]

\* the children of an item that exist in the map, one per listed child id
PresentChildren(item) ==
    {k \in 1..Len(item.childIds) : \E i \in 1..Len(pItems) : pItems[i].id = item.childIds[k]}

RECURSIVE SumProgress(_, _)
SumProgress(item, ks) ==
    IF ks = {} THEN 0
    ELSE LET k == Min(ks)
             child == CHOOSE c \in SeqSet(pItems) : c.id = item.childIds[k]
         IN  calculateProgress(child, pItems) + SumProgress(item, ks \ {k})

\* C6: for an item without children calculateProgress returns the explicit
\* progress when it is greater than 0, else 100 for completed, 50 for
\* in-progress and 0 for blocked, cancelled and not-started.
C6_LeafProgress ==
    (pResult # <<>> /\ ProgressItem.childIds = <<>>) =>
        IF ProgressItem.progress \in {Num(n) : n \in 1..100}
        THEN ProgressValue = ProgressItem.progress.n
        ELSE /\ ProgressItem.status = "completed" => ProgressValue = 100
             /\ ProgressItem.status = "in-progress" => ProgressValue = 50
             /\ ProgressItem.status \in {"blocked", "cancelled", "not-started"}
                    => ProgressValue = 0

\* calculateProgress returned the status default 50 for an in-progress leaf
\* whose progress is 0
C6_Witness ==
    /\ pResult # <<>>
    /\ ProgressItem.childIds = <<>>
    /\ ProgressItem.status = "in-progress"
    /\ ProgressItem.progress = Num(0)
    /\ ProgressValue = 50

\* C7: for an item with children calculateProgress returns the mean of the
\* calculateProgress of its children that are in the map, rounded to the
\* nearest integer (a half rounds up), whatever the item's own status and
\* progress; it returns 0 when none of its child ids is in the map.
C7_MeanProgress ==
    (pResult # <<>> /\ Len(ProgressItem.childIds) > 0) =>
        LET ks == PresentChildren(ProgressItem)
            count == Cardinality(ks)
            total == SumProgress(ProgressItem, ks)
        IN  IF count = 0 THEN ProgressValue = 0
            ELSE /\ 2 * count * ProgressValue <= 2 * total + count
                 /\ 2 * count * ProgressValue > 2 * total - count

\* an item that lists a missing child id and two children that are in the
\* map, whose mean 37.5 is reported as 38 although the item itself is completed
C7_Witness ==
    /\ pResult # <<>>
    /\ MissingId \in SeqSet(ProgressItem.childIds)
    /\ Cardinality(PresentChildren(ProgressItem)) = 2
    /\ SumProgress(ProgressItem, PresentChildren(ProgressItem)) = 75
    /\ ProgressItem.status = "completed"
    /\ ProgressValue = 38

(***************************************************************************)
(* Scoring (scoring.ts).  A criterion is [key, weight, direction], an      *)
(* option [id, scores, totalScore, rank] with scores a function from the   *)
(* keys it scores to numbers; a Map of options is the sequence of its      *)
(* values in insertion order.                                              *)
(***************************************************************************)
DEFAULT_MAX_SCORE == 5

\* a missing score counted as 1 in place of 0
RawScore_One(option, key) ==
    IF key \in DOMAIN option.scores THEN option.scores[key] ELSE 1

\* option.scores[key] ?? 0
RawScore(option, key) ==
    IF key \in DOMAIN option.scores THEN option.scores[key] ELSE 0

\* v ?? d for an optional number
Coalesce(v, d) == IF v = Undefined \/ v = JsNull THEN d ELSE v.n

\* normalizeScore without the inversion of lower-is-better criteria
normalizeScore_NoInvert(score, criterion, maxScore) == score

normalizeScore(score, criterion, maxScore) ==
    IF criterion.direction = "lower-is-better" THEN maxScore - score ELSE score

\* the loop of calculateOptionScore from the k-th criterion on
RECURSIVE ScoreFrom(_, _, _, _, _)
ScoreFrom(option, criteria, maxScore, k, totalScore) ==
    IF k > Len(criteria) THEN totalScore
    ELSE LET criterion == criteria[k]
             rawScore == RawScore(option, criterion.key)
             normalizedScore == normalizeScore(rawScore, criterion, maxScore)
         IN  ScoreFrom(option, criteria, maxScore, k + 1,
                       totalScore + criterion.weight * normalizedScore)

calculateOptionScore(option, criteria, maxScore) ==
    IF Len(criteria) = 0 THEN 0
    ELSE ScoreFrom(option, criteria, maxScore, 1, 0)

calculateAllScores(options, criteria, maxScore) ==
    [i \in 1..Len(options) |->
        [options[i] EXCEPT
            !.totalScore = Num(calculateOptionScore(options[i], criteria, maxScore))]]

\* Array.prototype.sort with (b.totalScore ?? 0) - (a.totalScore ?? 0): a
\* stable sort, so an option goes behind those that do not score less
InsertByScore(sorted, option) ==
    LET ahead == {i \in 1..Len(sorted) :
                     Coalesce(sorted[i].totalScore, 0) >= Coalesce(option.totalScore, 0)}
        k == Cardinality(ahead)
    IN  SubSeq(sorted, 1, k) \o <<option>> \o SubSeq(sorted, k + 1, Len(sorted))

RECURSIVE SortByScore(_, _, _)
SortByScore(options, k, sorted) ==
    IF k > Len(options) THEN sorted
    ELSE SortByScore(options, k + 1, InsertByScore(sorted, options[k]))

\* the rank given to every option after the first of each run of ties
NextRank_Dense(position, currentRank, previousScore, score) ==
    IF previousScore # JsNull /\ score < previousScore.n THEN currentRank + 1
    ELSE currentRank

\* currentRank after the test of the ranking loop at the 1-based position
NextRank(position, currentRank, previousScore, score) ==
    IF previousScore # JsNull /\ score < previousScore.n THEN position
    ELSE currentRank

\* the ranking loop of rankOptions from the k-th sorted option on
RECURSIVE RankFrom(_, _, _, _)
RankFrom(sorted, k, currentRank, previousScore) ==
    IF k > Len(sorted) THEN sorted
    ELSE LET score == Coalesce(sorted[k].totalScore, 0)
             rank == NextRank(k, currentRank, previousScore, score)
         IN  RankFrom([sorted EXCEPT ![k].rank = Num(rank)], k + 1, rank, Num(score))

rankOptions(options, criteria, maxScore) ==
    LET scoredOptions == calculateAllScores(options, criteria, maxScore)
        sorted == SortByScore(scoredOptions, 1, <<>>)
    IN  RankFrom(sorted, 1, 1, JsNull)

(***************************************************************************)
(* The scoring specification: a project's criteria and options as          *)
(* DecisionParser builds them, scored and ranked.                          *)
(***************************************************************************)
OptionId(k) == <<111, 48 + k>>      \* "o1", "o2", ...

CriterionChoices ==
    {[key |-> "cost", weight |-> 3, direction |-> "lower-is-better"],
     [key |-> "quality", weight |-> 5, direction |-> "undefined"],
     [key |-> "cost", weight |-> 2, direction |-> "undefined"]}

ScoreChoices ==
    {[key \in {} |-> 0],
     [key \in {"quality"} |-> 3],
     [key \in {"cost", "quality"} |-> IF key = "cost" THEN 4 ELSE 3]}

\* createDefaultOption with the scores parseOption reads
Option(k, scores) ==
    [id |-> OptionId(k), scores |-> scores, totalScore |-> Undefined, rank |-> Undefined]

CriteriaLists == UNION {[1..n -> CriterionChoices] : n \in 0..MaxCriteria}
OptionMaps ==
    UNION {{[k \in 1..n |-> Option(k, sc[k])] : sc \in [1..n -> ScoreChoices]} :
              n \in 0..MaxOptions}

InitScore ==
    /\ sCriteria \in CriteriaLists
    /\ sOptions \in OptionMaps
    /\ sMaxScore \in {DEFAULT_MAX_SCORE, 10}
    /\ sScores = <<>>
    /\ sRanked = <<>>
    /\ IdleExcept("score")

CalculateAllScores ==
    /\ sScores' = <<calculateAllScores(sOptions, sCriteria, sMaxScore)>>
    /\ UNCHANGED <<sOptions, sCriteria, sMaxScore, sRanked, notScoreVars>>

RankOptions ==
    /\ sRanked' = <<rankOptions(sOptions, sCriteria, sMaxScore)>>
    /\ UNCHANGED <<sOptions, sCriteria, sMaxScore, sScores, notScoreVars>>

NextScore == CalculateAllScores \/ RankOptions

SpecScore == InitScore /\ [][NextScore]_vars

(***************************************************************************)
(* Claims about scoring, checked under SpecScore.                          *)
(***************************************************************************)
\* weight x effective score of the option for one criterion
Weighted(option, criterion) ==
    LET raw == IF criterion.key \in DOMAIN option.scores
               THEN option.scores[criterion.key] ELSE 0
    IN  criterion.weight * (IF criterion.direction = "lower-is-better"
                            THEN sMaxScore - raw ELSE raw)

RECURSIVE WeightedSum(_, _)
WeightedSum(option, ks) ==
    IF ks = {} THEN 0
    ELSE LET k == Min(ks)
         IN  Weighted(option, sCriteria[k]) + WeightedSum(option, ks \ {k})

ExpectedScore(option) == WeightedSum(option, 1..Len(sCriteria))

\* C8: the total score of every option is the sum over the criteria of
\* weight x effective score, the raw score being 0 when the option does not
\* score the key and the effective score maxScore - raw for a lower-is-better
\* criterion; with no criteria every option scores 0.
C8_OptionScore ==
    sScores # <<>> =>
        /\ Len(sScores[1]) = Len(sOptions)
        /\ \A i \in 1..Len(sOptions) :
              /\ sScores[1][i].id = sOptions[i].id
              /\ sScores[1][i].totalScore = Num(ExpectedScore(sOptions[i]))
              /\ sCriteria = <<>> => sScores[1][i].totalScore = Num(0)

\* an option that does not score the key of a lower-is-better criterion and
\* is given the full maxScore x weight for it, beside a second criterion
C8_Witness ==
    /\ sScores # <<>>
    /\ Len(sCriteria) = 2
    /\ sCriteria[1].direction = "lower-is-better"
    /\ sCriteria[2].direction # "lower-is-better"
    /\ \E i \in 1..Len(sOptions) :
          /\ sCriteria[1].key \notin DOMAIN sOptions[i].scores
          /\ sCriteria[2].key \in DOMAIN sOptions[i].scores
          /\ sScores[1][i].totalScore = Num(3 * sMaxScore + 5 * 3)

\* C9: rankOptions returns every option exactly once, by total score
\* descending; the first has rank 1, an option that scores as the one before
\* it has that one's rank, and an option that scores less than the one before
\* it has its 1-based position as rank.
C9_CompetitionRanking ==
    sRanked # <<>> =>
        LET ranked == sRanked[1]
        IN  /\ Len(ranked) = Len(sOptions)
            /\ \A i \in 1..Len(sOptions) :
                  Cardinality({j \in 1..Len(ranked) :
                      /\ ranked[j].id = sOptions[i].id
                      /\ ranked[j].scores = sOptions[i].scores}) = 1
            /\ \A j \in 1..Len(ranked) :
                  ranked[j].totalScore = Num(ExpectedScore(ranked[j]))
            /\ \A j \in 2..Len(ranked) :
                  /\ ranked[j - 1].totalScore.n >= ranked[j].totalScore.n
                  /\ ranked[j].totalScore.n = ranked[j - 1].totalScore.n
                        => ranked[j].rank = ranked[j - 1].rank
                  /\ ranked[j].totalScore.n < ranked[j - 1].totalScore.n
                        => ranked[j].rank = Num(j)
            /\ Len(ranked) > 0 => ranked[1].rank = Num(1)

\* two options tie for rank 1 and the third, scoring less, has rank 3
C9_Witness ==
    /\ sRanked # <<>>
    /\ Len(sRanked[1]) = 3
    /\ sRanked[1][1].totalScore = sRanked[1][2].totalScore
    /\ sRanked[1][3].totalScore.n < sRanked[1][2].totalScore.n
    /\ sRanked[1][1].rank = Num(1)
    /\ sRanked[1][2].rank = Num(1)
    /\ sRanked[1][3].rank = Num(3)

(***************************************************************************)
(* Risks (riskModel.ts, DecisionParser.parseRisk).  A risk is              *)
(* [probability, impact, exposure], each a JS number.                      *)
(***************************************************************************)
\* clampRiskValue(value): a number that is not NaN
clampRiskValue(value) ==
    IF ~IsNumber(value) \/ IsNaN(value) THEN 1
    ELSE MathMax(1, MathMin(5, value)).n

calculateExposure(probability, impact) ==
    LET clampedProb == clampRiskValue(probability)
        clampedImpact == clampRiskValue(impact)
    IN  clampedProb * clampedImpact

createDefaultRisk == [probability |-> Num(1), impact |-> Num(1), exposure |-> Num(1)]

\* a * b of two JS numbers
Times(a, b) == IF IsNaN(a) \/ IsNaN(b) THEN NaN ELSE Num(a.n * b.n)

\* parseRisk(file), file = [hasFm, probability, impact]
parseRisk(file) ==
    IF ~file.hasFm THEN createDefaultRisk
    ELSE LET probability == IF IsNumber(file.probability)
                            THEN MathMax(1, MathMin(5, file.probability))
                            ELSE createDefaultRisk.probability
             impact == IF IsNumber(file.impact)
                       THEN MathMax(1, MathMin(5, file.impact))
                       ELSE createDefaultRisk.impact
         IN  [probability |-> probability, impact |-> impact,
              exposure |-> Times(probability, impact)]

(***************************************************************************)
(* The risk specification: a risk note's frontmatter, parsed by parseRisk  *)
(* and handed to calculateExposure.                                        *)
(***************************************************************************)
RiskInputs ==
    {Undefined, JsNull, Str(<<104, 105, 103, 104>>), NaN}
    \cup {Num(n) : n \in -1..MaxRiskInput}

RiskNotes ==
    {[hasFm |-> FALSE, probability |-> Undefined, impact |-> Undefined]}
    \cup {[hasFm |-> TRUE, probability |-> p, impact |-> i] :
             p \in RiskInputs, i \in RiskInputs}

InitRisk ==
    /\ rFront \in RiskNotes
    /\ rRisk = <<>>
    /\ rExposure = <<>>
    /\ IdleExcept("risk")

ParseRisk ==
    /\ rRisk' = <<parseRisk(rFront)>>
    /\ UNCHANGED <<rFront, rExposure, notRiskVars>>

CalculateExposure ==
    /\ rExposure' = <<calculateExposure(rFront.probability, rFront.impact)>>
    /\ UNCHANGED <<rFront, rRisk, notRiskVars>>

NextRisk == ParseRisk \/ CalculateExposure

SpecRisk == InitRisk /\ [][NextRisk]_vars

(***************************************************************************)
(* Claims about risks, checked under SpecRisk.                             *)
(***************************************************************************)
\* clamp(v,1,5) of a frontmatter value; 1 for one that gives no number
Clamp(v) ==
    IF ~IsNumber(v) \/ IsNaN(v) THEN 1
    ELSE IF v.n < 1 THEN 1 ELSE IF v.n > 5 THEN 5 ELSE v.n

\* C10: calculateExposure returns clamp(probability,1,5) x clamp(impact,1,5);
\* parseRisk always produces a probability and an impact within 1..5, 1 for a
\* value that is missing or not numeric, and their product, within 1..25, as
\* the exposure.
C10_Exposure ==
    /\ rExposure # <<>> =>
          rExposure[1] = Clamp(rFront.probability) * Clamp(rFront.impact)
    /\ rRisk # <<>> =>
          /\ rRisk[1].probability \in {Num(n) : n \in 1..5}
          /\ rRisk[1].impact \in {Num(n) : n \in 1..5}
          /\ rRisk[1].exposure \in {Num(n) : n \in 1..25}
          /\ rRisk[1].exposure = Num(rRisk[1].probability.n * rRisk[1].impact.n)

(***************************************************************************)
(* The risk register (riskModel.ts): sortRisksByExposure and getTopRisks   *)
(* over the risks DecisionParser.parseRisk built.  A register risk is      *)
(* [id, probability, impact, exposure].                                    *)
(***************************************************************************)
\* b.exposure - a.exposure > 0: the comparator puts b before a.  A NaN
\* difference counts as +0.
ExposureBefore(b, a) ==
    ~IsNaN(a.exposure) /\ ~IsNaN(b.exposure) /\ b.exposure.n > a.exposure.n

\* a stable sort puts a risk behind those the comparator does not put behind it
InsertByExposure(sorted, risk) ==
    LET ahead == {i \in 1..Len(sorted) : ~ExposureBefore(risk, sorted[i])}
        k == Cardinality(ahead)
    IN  SubSeq(sorted, 1, k) \o <<risk>> \o SubSeq(sorted, k + 1, Len(sorted))

RECURSIVE SortByExposure(_, _, _)
SortByExposure(risks, k, sorted) ==
    IF k > Len(risks) THEN sorted
    ELSE SortByExposure(risks, k + 1, InsertByExposure(sorted, risks[k]))

\* the comparator is no consistent comparison function: it calls a NaN
\* exposure equal to two exposures that it orders
InconsistentComparator(risks) ==
    \E i, j, k \in 1..Len(risks) :
        /\ IsNaN(risks[i].exposure)
        /\ ExposureBefore(risks[j], risks[k])

Orderings(seq) ==
    {[i \in 1..Len(seq) |-> seq[f[i]]] :
        f \in {g \in [1..Len(seq) -> 1..Len(seq)] :
                  \A i, j \in 1..Len(seq) : g[i] = g[j] => i = j}}

\* the arrays sortRisksByExposure(risks) can return: the order that
\* Array.prototype.sort gives is implementation-defined when the comparator
\* is not consistent
sortRisksByExposure(risks) ==
    IF InconsistentComparator(risks) THEN Orderings(risks)
    ELSE {SortByExposure(risks, 1, <<>>)}

\* sorted.slice(0, n)
Slice(sorted, n) == SubSeq(sorted, 1, IF n < Len(sorted) THEN n ELSE Len(sorted))

getTopRisks(risks, n) == {Slice(sorted, n) : sorted \in sortRisksByExposure(risks)}

(***************************************************************************)
(* The register specification.                                             *)
(***************************************************************************)
RiskId(k) == <<114, 48 + k>>      \* "r1", "r2", ...

RegisterNotes ==
    {[hasFm |-> TRUE, probability |-> Num(p[1]), impact |-> Num(p[2])] :
        p \in {<<2, 2>>, <<5, 5>>}}
    \cup {[hasFm |-> TRUE, probability |-> NaN, impact |-> Num(5)]}

\* DecisionParser.parseFolder: the risk of the k-th risk note
RegisterRisk(k, note) ==
    LET risk == parseRisk(note)
    IN  [id |-> RiskId(k), probability |-> risk.probability,
         impact |-> risk.impact, exposure |-> risk.exposure]

RegisterMaps ==
    UNION {{[k \in 1..n |-> RegisterRisk(k, notes[k])] :
               notes \in [1..n -> RegisterNotes]} : n \in 0..MaxRisks}

InitRegister ==
    /\ gRisks \in RegisterMaps
    /\ gCall = <<>>
    /\ IdleExcept("register")

SortRisksByExposure ==
    /\ \E sorted \in sortRisksByExposure(gRisks) :
          gCall' = <<[fn |-> "sortRisksByExposure", n |-> 0, result |-> sorted]>>
    /\ UNCHANGED <<gRisks, notRegisterVars>>

GetTopRisks(n) ==
    /\ \E top \in getTopRisks(gRisks, n) :
          gCall' = <<[fn |-> "getTopRisks", n |-> n, result |-> top]>>
    /\ UNCHANGED <<gRisks, notRegisterVars>>

NextRegister == SortRisksByExposure \/ \E n \in 0..(MaxRisks + 1) : GetTopRisks(n)

SpecRegister == InitRegister /\ [][NextRegister]_vars

(***************************************************************************)
(* Claims about the risk register, checked under SpecRegister.             *)
(***************************************************************************)
Recomputed(risk) == calculateExposure(risk.probability, risk.impact)

Sorted == gCall # <<>> /\ gCall[1].fn = "sortRisksByExposure"
Topped == gCall # <<>> /\ gCall[1].fn = "getTopRisks"

Descending(risks) ==
    \A j \in 2..Len(risks) : Recomputed(risks[j - 1]) >= Recomputed(risks[j])

\* C11: sortRisksByExposure returns every risk once, by the exposure
\* recomputed from the clamped probability and impact descending;
\* getTopRisks(risks, n) has min(n, number of risks) elements and is the
\* start of that order.
C11_SortByExposure ==
    /\ Sorted =>
          /\ Len(gCall[1].result) = Len(gRisks)
          /\ SeqSet(gCall[1].result) = SeqSet(gRisks)
          /\ Descending(gCall[1].result)
    /\ Topped =>
          /\ Len(gCall[1].result) =
                (IF gCall[1].n < Len(gRisks) THEN gCall[1].n ELSE Len(gRisks))
          /\ SeqSet(gCall[1].result) \subseteq SeqSet(gRisks)
          /\ Descending(gCall[1].result)
          /\ \A t \in SeqSet(gCall[1].result) :
                \A r \in SeqSet(gRisks) \ SeqSet(gCall[1].result) :
                   Recomputed(t) >= Recomputed(r)

(***************************************************************************)
(* Risk levels (riskModel.ts).                                             *)
(***************************************************************************)
RISK_THRESHOLDS == [critical |-> 20, high |-> 15, medium |-> 8]

\* exposure >= threshold for a JS number: false for NaN
AtLeast(exposure, threshold) == ~IsNaN(exposure) /\ exposure.n >= threshold

\* getRiskLevel with > for >= at every threshold
getRiskLevel_Above(exposure) ==
    IF AtLeast(exposure, RISK_THRESHOLDS.critical + 1) THEN "critical"
    ELSE IF AtLeast(exposure, RISK_THRESHOLDS.high + 1) THEN "high"
    ELSE IF AtLeast(exposure, RISK_THRESHOLDS.medium + 1) THEN "medium"
    ELSE "low"

getRiskLevel(exposure) ==
    IF AtLeast(exposure, RISK_THRESHOLDS.critical) THEN "critical"
    ELSE IF AtLeast(exposure, RISK_THRESHOLDS.high) THEN "high"
    ELSE IF AtLeast(exposure, RISK_THRESHOLDS.medium) THEN "medium"
    ELSE "low"

(***************************************************************************)
(* The level specification: the renderer classifies one exposure after     *)
(* another; the last two classifications are kept.                         *)
(***************************************************************************)
ExposureInputs == {NaN} \cup {Num(n) : n \in 0..MaxExposure}

InitLevel ==
    /\ gLevels = <<>>
    /\ IdleExcept("level")

\* DecisionRenderer: const level = getRiskLevel(risk.exposure)
GetRiskLevel(exposure) ==
    /\ gLevels' = (IF Len(gLevels) < 2 THEN gLevels ELSE Tail(gLevels))
                  \o <<[exposure |-> exposure, level |-> getRiskLevel(exposure)]>>
    /\ UNCHANGED notLevelVars

NextLevel == \E exposure \in ExposureInputs : GetRiskLevel(exposure)

SpecLevel == InitLevel /\ [][NextLevel]_vars

(***************************************************************************)
(* Claims about risk levels, checked under SpecLevel.                      *)
(***************************************************************************)
\* the position of a band in the order low < medium < high < critical
BandRank(level) ==
    CASE level = "low" -> 1 [] level = "medium" -> 2
      [] level = "high" -> 3 [] level = "critical" -> 4

\* C12: getRiskLevel gives critical for an exposure >= 20, high for
\* 15 <= exposure < 20, medium for 8 <= exposure < 15 and low otherwise, and
\* of two exposures the larger never has the lower band.
C12_RiskLevel ==
    /\ \A i \in 1..Len(gLevels) :
          LET e == gLevels[i].exposure
              l == gLevels[i].level
          IN  /\ l = "critical" <=> (~IsNaN(e) /\ e.n >= 20)
              /\ l = "high" <=> (~IsNaN(e) /\ 15 <= e.n /\ e.n < 20)
              /\ l = "medium" <=> (~IsNaN(e) /\ 8 <= e.n /\ e.n < 15)
              /\ l = "low" <=> (IsNaN(e) \/ e.n < 8)
    /\ \A i, j \in 1..Len(gLevels) :
          (/\ ~IsNaN(gLevels[i].exposure) /\ ~IsNaN(gLevels[j].exposure)
           /\ gLevels[i].exposure.n <= gLevels[j].exposure.n)
             => BandRank(gLevels[i].level) <= BandRank(gLevels[j].level)

\* exposure 20 was classified critical right after exposure 19 was
\* classified high
C12_Witness ==
    /\ Len(gLevels) = 2
    /\ gLevels[1] = [exposure |-> Num(19), level |-> "high"]
    /\ gLevels[2] = [exposure |-> Num(20), level |-> "critical"]

(***************************************************************************)
(* The parseFile specification: a folder of one note that declares a       *)
(* status, a progress and a completion field, loaded as in SpecWBS.        *)
(***************************************************************************)
StatusChoices ==
    {Undefined,
     Str(<<105, 110, 45, 112, 114, 111, 103, 114, 101, 115, 115>>),   \* in-progress
     Str(<<98, 108, 111, 99, 107, 101, 100>>),                        \* blocked
     Str(<<120>>)}                                                    \* x

ProgressChoices == {Undefined, Num(0), Num(30), Num(150), NaN}

CompletedChoices ==
    {Undefined, JsNull, Bool(TRUE), Bool(FALSE), Num(0), Num(1), NaN, Obj,
     Str(<<>>), Str(<<32>>), Str(<<48>>), Str(<<120>>),
     Str(<<70, 97, 108, 115, 101>>),                                  \* False
     Arr(<<>>), Arr(<<Bool(FALSE), Str(<<45, 32, 91, 32, 93>>)>>),    \* [false, '- [ ]']
     Arr(<<Num(0), Str(<<45, 32, 91, 120, 93>>)>>)}                   \* [0, '- [x]']

StatusNotes ==
    {[path |-> PathA, hasFm |-> TRUE, parent |-> Undefined, status |-> st,
      progress |-> pr, completed |-> c, wbsNumber |-> Undefined] :
        st \in StatusChoices, pr \in ProgressChoices, c \in CompletedChoices}

InitParseFile ==
    /\ vault \in {<<note>> : note \in StatusNotes}
    /\ project = NoProject
    /\ validation = NoValidation
    /\ IdleExcept("wbs")

SpecParseFile == InitParseFile /\ [][NextWBS]_vars

(***************************************************************************)
(* Claims about parseFile, checked under SpecParseFile.                    *)
(***************************************************************************)
\* the completion values that count as set: true, a number other than 0, a
\* string other than '', 'false' and '0' (trimmed, any case), an object, and
\* an array with such an element (a string element other than '- [ ]' too)
RECURSIVE TruthyCompletion(_)
TruthyCompletion(v) ==
    \/ v = Bool(TRUE)
    \/ v.t = "number" /\ v # Num(0)
    \/ v.t = "string" /\ ToLowerCase(Trim(v.s)) \notin
          {<<>>, <<102, 97, 108, 115, 101>>, <<48>>}
    \/ v.t = "object"
    \/ v.t = "array" /\ \E i \in 1..Len(v.a) :
          TruthyCompletion(v.a[i]) /\ v.a[i] # Str(<<45, 32, 91, 32, 93>>)

\* C13: a note whose completion field is set is parsed as status completed
\* with progress 100, whatever status and progress it declares.
C13_CompletionOverride ==
    (project # NoProject /\ TruthyCompletion(vault[1].completed)) =>
        /\ Len(project.items) = 1
        /\ project.items[1].status = "completed"
        /\ project.items[1].progress = Num(100)

\* a note that declares status in-progress and progress 30 beside a set
\* completion field was parsed as completed with progress 100
C13_Witness ==
    /\ project # NoProject
    /\ vault[1].status = Str(<<105, 110, 45, 112, 114, 111, 103, 114, 101, 115, 115>>)
    /\ vault[1].progress = Num(30)
    /\ vault[1].completed = Bool(TRUE)
    /\ project.items[1].status = "completed"
    /\ project.items[1].progress = Num(100)

(***************************************************************************)
(* The listing-order specification: folders whose notes lie in subfolders, *)
(* two of them with the same file name, loaded as in SpecWBS.              *)
(***************************************************************************)
PathSC == <<112, 47, 115, 47, 99, 46, 109, 100>>      \* p/s/c.md
PathTC == <<112, 47, 116, 47, 99, 46, 109, 100>>      \* p/t/c.md

\* the parent property of a note: none, "[[c]]", "[[a]]"
OrderParents == {Undefined, Str(<<91, 91, 99, 93, 93>>), Str(<<91, 91, 97, 93, 93>>)}

OrderVaults ==
    UNION {{v \in [1..n -> {Note(p, par, Undefined) :
                               p \in {PathA, PathB, PathSC, PathTC},
                               par \in OrderParents}] :
               DistinctPaths(v)} : n \in 0..MaxFiles}

InitOrder ==
    /\ vault \in OrderVaults
    /\ project = NoProject
    /\ validation = NoValidation
    /\ IdleExcept("wbs")

SpecOrder == InitOrder /\ [][NextWBS]_vars

(***************************************************************************)
(* Claims about the listing order, checked under SpecOrder.                *)
(***************************************************************************)
\* what parseFolder built, without the insertion order of the item map
Structure(p) == [rootItemIds |-> p.rootItemIds, items |-> SeqSet(p.items)]

\* the listings of the notes of the vault in every order
Listings == Orderings(vault)

\* C14: the parentId, childIds, wbsNumber and level of every item and the
\* rootItemIds that parseFolder builds are the same for every order in
\* which the vault lists the same notes.
C14_OrderIndependent ==
    Built => \A listing \in Listings :
                Structure(parseFolder(listing, Folder)) = Structure(project)

(***************************************************************************)
(* The folder-scope specification: a vault with notes inside the folder p, *)
(* in the folder pq beside it and in the folder q, loaded as in SpecWBS.   *)
(***************************************************************************)
PathPQ == <<112, 113, 47, 100, 46, 109, 100>>      \* pq/d.md
PathQ == <<113, 47, 101, 46, 109, 100>>            \* q/e.md

ScopeVaults ==
    UNION {{v \in [1..n -> {Note(p, par, Undefined) :
                               p \in {PathA, PathB, PathPQ, PathQ},
                               par \in {Undefined, Str(<<91, 91, 97, 93, 93>>)}}] :
               DistinctPaths(v)} : n \in 0..MaxFiles}

InitScope ==
    /\ vault \in ScopeVaults
    /\ project = NoProject
    /\ validation = NoValidation
    /\ IdleExcept("wbs")

SpecScope == InitScope /\ [][NextWBS]_vars

(***************************************************************************)
(* Claims about the folder scope, checked under SpecScope.                 *)
(***************************************************************************)
\* the path is the folder or lies below it
Within(path, folder) ==
    \/ path = folder
    \/ /\ Len(path) > Len(folder)
       /\ SubSeq(path, 1, Len(folder) + 1) = folder \o Slash

\* C15: the items of the project parseFolder builds are exactly the notes
\* of the vault whose path is the folder or lies within it.
C15_FolderScope ==
    Built => {it.id : it \in Items} =
                {vault[i].path : i \in {j \in 1..Len(vault) : Within(vault[j].path, Folder)}}

(***************************************************************************)
(* The link specification: a parent reference written in one of the        *)
(* syntaxes, handed to extractLinkTarget.  A reference is                  *)
(* [form, target, text]: text is what the note holds.                      *)
(***************************************************************************)
LinkTargets ==
    {<<97>>,                          \* a
     <<102, 47, 97>>,                 \* f/a
     <<97, 32, 98>>,                  \* a b
     <<97, 46, 109, 100>>,            \* a.md
     <<84, 97, 115, 107, 45, 49>>}    \* Task-1

LinkAliases == {<<120>>, <<120, 32, 121>>, <<97>>}     \* x, x y, a

WikiLink(target) == <<91, 91>> \o target \o <<93, 93>>
WikiAliasLink(target, alias) == <<91, 91>> \o target \o <<124>> \o alias \o <<93, 93>>
MarkdownLink(target, alias) == <<91>> \o alias \o <<93, 40>> \o target \o DotMd \o <<41>>

LinkInputs ==
    {[form |-> "empty", target |-> Null, text |-> <<>>],
     [form |-> "missing", target |-> Null, text |-> Null]}
    \cup {[form |-> "wiki", target |-> t, text |-> WikiLink(t)] : t \in LinkTargets}
    \cup {[form |-> "bare", target |-> t, text |-> t] : t \in LinkTargets}
    \cup {[form |-> "wiki-alias", target |-> t, text |-> WikiAliasLink(t, a)] :
             t \in LinkTargets, a \in LinkAliases}
    \cup {[form |-> "markdown", target |-> t, text |-> MarkdownLink(t, a)] :
             t \in LinkTargets, a \in LinkAliases}
    \cup {[form |-> "markdown-then-wiki", target |-> t,
           text |-> MarkdownLink(a, a) \o <<32>> \o WikiLink(t)] :
             t \in LinkTargets, a \in LinkAliases}

InitLink ==
    /\ lLink \in LinkInputs
    /\ lTarget = <<>>
    /\ IdleExcept("link")

\* WBSParser.parseFile: item.parentId = this.extractLinkTarget(parentLink)
ExtractLinkTarget ==
    /\ lTarget' = <<extractLinkTarget(lLink.text)>>
    /\ UNCHANGED <<lLink, notLinkVars>>

NextLink == ExtractLinkTarget

SpecLink == InitLink /\ [][NextLink]_vars

(***************************************************************************)
(* Claims about extractLinkTarget, checked under SpecLink.                 *)
(***************************************************************************)
\* C16: extractLinkTarget returns Target for [[Target]], [[Target|Alias]],
\* [Alias](Target.md) and the bare text Target alike, the target of the wiki
\* link when the text holds a markdown link too, and null for an empty or
\* missing reference.
C16_LinkTarget ==
    lTarget # <<>> => lTarget[1] = lLink.target

\* the markdown link [x y](f/a.md) gave the target f/a
C16_Witness ==
    /\ lTarget = <<(<<102, 47, 97>>)>>
    /\ lLink.form = "markdown"
    /\ lLink.text = <<91, 120, 32, 121, 93, 40, 102, 47, 97, 46, 109, 100, 41>>

(***************************************************************************)
(* The project configuration (DecisionParser.findProjectConfig).  A note   *)
(* is [path, hasFm, type, criteria]: type is the frontmatter value of      *)
(* nexuspm-type, criteria the criteria the frontmatter lists.              *)
(***************************************************************************)
\* the valid item types: decision-project, memo, option, decision, risk,
\* assumption, evidence, task
ValidTypes ==
    {
     <<100, 101, 99, 105, 115, 105, 111, 110, 45, 112, 114, 111, 106, 101, 99, 116>>,
     <<109, 101, 109, 111>>,
     <<111, 112, 116, 105, 111, 110>>,
     <<100, 101, 99, 105, 115, 105, 111, 110>>,
     <<114, 105, 115, 107>>,
     <<97, 115, 115, 117, 109, 112, 116, 105, 111, 110>>,
     <<101, 118, 105, 100, 101, 110, 99, 101>>,
     <<116, 97, 115, 107>>}

\* detectItemType(frontmatter): the normalized type, Null for none
detectItemType(note) ==
    IF ~IsString(note.type) \/ note.type.s = <<>> THEN Null
    ELSE LET normalized == Trim(ToLowerCase(note.type.s))
         IN  IF normalized \in ValidTypes THEN normalized ELSE Null

DecisionProjectType == <<100, 101, 99, 105, 115, 105, 111, 110, 45, 112, 114, 111, 106, 101, 99, 116>>

DEFAULT_PROJECT_CONFIG == [criteria |-> <<>>, gates |-> <<>>, scoringMissing |-> "zero"]

\* parseProjectConfig(frontmatter), for a frontmatter without gates whose
\* criteria are objects: the criteria with a key
parseProjectConfig(note) ==
    [criteria |-> SelectSeq(note.criteria, LAMBDA c : c.key # ""),
     gates |-> <<>>, scoringMissing |-> "zero"]

\* TFile.basename: the file name without its extension
Basename(path) == RemoveMdSuffix(LastSegment(path))

ProjectPrefix == <<95, 112, 114, 111, 106, 101, 99, 116>>

\* the filter of findProjectConfig on the vault's files
InConfigFolder(path, folderPath) ==
    StartsWith(path, folderPath \o Slash) \/ path = folderPath

\* the indices, in listing order, of the projectFiles of findProjectConfig
ProjectFiles(files, folderPath) ==
    {i \in 1..Len(files) :
        /\ InConfigFolder(files[i].path, folderPath)
        /\ files[i].hasFm
        /\ detectItemType(files[i]) = DecisionProjectType}

\* findProjectConfig without the priority of _project files
findProjectConfig_First(files, folderPath) ==
    LET projectFiles == ProjectFiles(files, folderPath)
    IN  IF projectFiles = {} THEN DEFAULT_PROJECT_CONFIG
        ELSE parseProjectConfig(files[Min(projectFiles)])

findProjectConfig(files, folderPath) ==
    LET projectFiles == ProjectFiles(files, folderPath)
        priority == {i \in projectFiles : StartsWith(Basename(files[i].path), ProjectPrefix)}
        targetFile == IF priority # {} THEN Min(priority) ELSE Min(projectFiles)
    IN  IF projectFiles = {} THEN DEFAULT_PROJECT_CONFIG
        ELSE IF ~files[targetFile].hasFm THEN DEFAULT_PROJECT_CONFIG
        ELSE parseProjectConfig(files[targetFile])

(***************************************************************************)
(* The configuration specification: a vault of notes in and beside the     *)
(* folder p, some of them decision-project notes, each listing one         *)
(* criterion named after the note and one criterion without a key.         *)
(***************************************************************************)
ConfigPaths ==
    {<<112, 47, 95, 112, 114, 111, 106, 101, 99, 116, 46, 109, 100>>,             \* p/_project.md
     <<112, 47, 115, 47, 95, 112, 114, 111, 106, 101, 99, 116, 50, 46, 109, 100>>,   \* p/s/_project2.md
     <<112, 47, 97, 46, 109, 100>>,                                             \* p/a.md
     <<112, 113, 47, 95, 112, 114, 111, 106, 101, 99, 116, 46, 109, 100>>}         \* pq/_project.md

ConfigTypes ==
    {Str(<<100, 101, 99, 105, 115, 105, 111, 110, 45, 112, 114, 111, 106, 101, 99, 116>>),
     Str(<<32, 68, 101, 99, 105, 115, 105, 111, 110, 45, 80, 114, 111, 106, 101, 99, 116>>),
     Str(<<111, 112, 116, 105, 111, 110>>)}

\* the criterion a note lists: its key is the path of the note
CriterionOf(path) == [key |-> path, weight |-> 1, direction |-> "undefined"]

ConfigNotes ==
    {[path |-> p, hasFm |-> TRUE, type |-> t,
      criteria |-> <<[key |-> "", weight |-> 1, direction |-> "undefined"], CriterionOf(p)>>] :
        p \in ConfigPaths, t \in ConfigTypes}
    \cup {[path |-> p, hasFm |-> FALSE, type |-> Undefined, criteria |-> <<>>] :
             p \in ConfigPaths}

ConfigVaults ==
    UNION {{v \in [1..n -> ConfigNotes] : DistinctPaths(v)} : n \in 0..MaxFiles}

InitConfig ==
    /\ cVault \in ConfigVaults
    /\ cConfig = <<>>
    /\ IdleExcept("config")

\* DecisionParser.parseFolder: const config = this.findProjectConfig(folderPath)
FindProjectConfig ==
    /\ cConfig' = <<findProjectConfig(cVault, Folder)>>
    /\ UNCHANGED <<cVault, notConfigVars>>

NextConfig == FindProjectConfig

SpecConfig == InitConfig /\ [][NextConfig]_vars

(***************************************************************************)
(* Claims about findProjectConfig, checked under SpecConfig.               *)
(***************************************************************************)
\* the decision-project notes of the folder, by listing index
Candidates ==
    {i \in 1..Len(cVault) :
        /\ Within(cVault[i].path, Folder)
        /\ cVault[i].hasFm
        /\ cVault[i].type \in {Str(<<100, 101, 99, 105, 115, 105, 111, 110, 45, 112, 114, 111, 106, 101, 99, 116>>),
                               Str(<<32, 68, 101, 99, 105, 115, 105, 111, 110, 45, 80, 114, 111, 106, 101, 99, 116>>)}}

Prefixed == {i \in Candidates : StartsWith(LastSegment(cVault[i].path), ProjectPrefix)}

\* C17: findProjectConfig returns the configuration of the first
\* decision-project note of the folder whose basename starts with _project,
\* else of the first decision-project note of the folder, else the default
\* with no criteria and scoringMissing = zero.
C17_ProjectConfig ==
    cConfig # <<>> =>
        /\ cConfig[1].scoringMissing = "zero"
        /\ cConfig[1].criteria =
              (IF Prefixed # {} THEN <<CriterionOf(cVault[Min(Prefixed)].path)>>
               ELSE IF Candidates # {} THEN <<CriterionOf(cVault[Min(Candidates)].path)>>
               ELSE <<>>)

\* p/s/_project2.md is used although the decision-project note p/a.md is
\* listed before it
C17_Witness ==
    /\ cConfig # <<>>
    /\ Len(cVault) >= 2
    /\ 1 \in Candidates
    /\ 2 \in Prefixed
    /\ 1 \notin Prefixed
    /\ cConfig[1].criteria = <<CriterionOf(cVault[2].path)>>

(***************************************************************************)
(* The rows of the WBS table (wbsRenderer.ts, wbsView.ts).                 *)
(***************************************************************************)
\* getVisibleItems with the test of item.isExpanded left out
RECURSIVE addItems_All(_, _, _, _)
addItems_All(items, result, itemIds, k) ==
    IF k > Len(itemIds) THEN result
    ELSE IF ~MapHas(items, itemIds[k]) THEN addItems_All(items, result, itemIds, k + 1)
    ELSE LET item == items[MapIndex(items, itemIds[k])]
             pushed == Append(result, item)
         IN  addItems_All(items,
                          IF Len(item.childIds) > 0
                          THEN addItems_All(items, pushed, item.childIds, 1)
                          ELSE pushed,
                          itemIds, k + 1)

getVisibleItems_All(proj) == addItems_All(proj.items, <<>>, proj.rootItemIds, 1)

\* addItems(itemIds) of getVisibleItems, from the k-th id on; result is the
\* array it pushes to
RECURSIVE addItems(_, _, _, _)
addItems(items, result, itemIds, k) ==
    IF k > Len(itemIds) THEN result
    ELSE IF ~MapHas(items, itemIds[k]) THEN addItems(items, result, itemIds, k + 1)
    ELSE LET item == items[MapIndex(items, itemIds[k])]
             pushed == Append(result, item)
         IN  addItems(items,
                      IF item.isExpanded /\ Len(item.childIds) > 0
                      THEN addItems(items, pushed, item.childIds, 1)
                      ELSE pushed,
                      itemIds, k + 1)

\* WBSRenderer.getVisibleItems(project)
getVisibleItems(proj) == addItems(proj.items, <<>>, proj.rootItemIds, 1)

\* the notes of the views: up to MaxFiles of a, b, c, d, each without a parent
\* or with the parent a, b or c
ViewParents ==
    {Undefined, Str(<<91, 91, 97, 93, 93>>), Str(<<91, 91, 98, 93, 93>>),
     Str(<<91, 91, 99, 93, 93>>)}

ViewVaults ==
    UNION {{v \in [1..n -> {Note(p, par, Undefined) : p \in Paths, par \in ViewParents}] :
               /\ DistinctPaths(v)
               /\ \A i \in 1..(n - 1) : StrLess(v[i].path, v[i + 1].path)} :
           n \in 1..MaxFiles}

InitView ==
    /\ vProject \in {parseFolder(v, Folder) : v \in ViewVaults}
    /\ vVisible = <<>>
    /\ IdleExcept("view")

\* WBSView.render: the table is drawn from the current project
Render ==
    /\ vVisible' = <<getVisibleItems(vProject)>>
    /\ UNCHANGED <<vProject, notViewVars>>

\* WBSView.toggleExpand(itemId), with the render that ends it
ToggleExpand(itemId) ==
    /\ MapHas(vProject.items, itemId)
    /\ LET i == MapIndex(vProject.items, itemId)
       IN  vProject' = [vProject EXCEPT
                           !.items[i].isExpanded = ~vProject.items[i].isExpanded]
    /\ vVisible' = <<getVisibleItems(vProject')>>
    /\ UNCHANGED notViewVars

\* WBSView.toggleExpandAll(), with the render that ends it
ToggleExpandAll ==
    /\ LET hasCollapsed == \E i \in 1..Len(vProject.items) :
                               /\ Len(vProject.items[i].childIds) > 0
                               /\ ~vProject.items[i].isExpanded
       IN  vProject' = [vProject EXCEPT !.items =
                           [i \in 1..Len(vProject.items) |->
                               IF Len(vProject.items[i].childIds) > 0
                               THEN [vProject.items[i] EXCEPT !.isExpanded = hasCollapsed]
                               ELSE vProject.items[i]]]
    /\ vVisible' = <<getVisibleItems(vProject')>>
    /\ UNCHANGED notViewVars

NextView ==
    \/ Render
    \/ \E itemId \in Paths : ToggleExpand(itemId)
    \/ ToggleExpandAll

SpecView == InitView /\ [][NextView]_vars

(***************************************************************************)
(* Claims about the rows of the table, checked under SpecView.             *)
(***************************************************************************)
\* the items above an item: its parent, the parent of its parent, and so on,
\* for as long as there is one (n bounds the walk on a parent cycle)
RECURSIVE AncestorsOf(_, _, _)
AncestorsOf(items, id, n) ==
    IF n = 0 \/ ~MapHas(items, id) THEN {}
    ELSE LET parentId == items[MapIndex(items, id)].parentId
         IN  IF ~Truthy(parentId) \/ ~MapHas(items, parentId) THEN {}
             ELSE {parentId} \cup AncestorsOf(items, parentId, n - 1)

\* the item hangs, through its ancestors, below one of the roots
BelowRoot(proj, id) ==
    \E r \in 1..Len(proj.rootItemIds) :
        proj.rootItemIds[r] \in ({id} \cup AncestorsOf(proj.items, id, Len(proj.items)))

\* the item is to be listed: every ancestor of it is expanded
Listed(proj, id) ==
    /\ BelowRoot(proj, id)
    /\ \A a \in AncestorsOf(proj.items, id, Len(proj.items)) :
           proj.items[MapIndex(proj.items, a)].isExpanded

\* the position of an item among its siblings: in childIds of its parent, or
\* in rootItemIds
SiblingsOf(proj, id) ==
    LET parentId == proj.items[MapIndex(proj.items, id)].parentId
    IN  IF Truthy(parentId) /\ MapHas(proj.items, parentId)
        THEN proj.items[MapIndex(proj.items, parentId)].childIds
        ELSE proj.rootItemIds

\* depth-first order: every item stands after its parent, and an item with
\* everything listed below it stands before its next sibling
DepthFirst(proj, rows) ==
    LET pos(id) == CHOOSE k \in 1..Len(rows) : rows[k].id = id
        ids == {rows[k].id : k \in 1..Len(rows)}
    IN  /\ \A id \in ids : \A a \in AncestorsOf(proj.items, id, Len(proj.items)) :
               a \in ids /\ pos(a) < pos(id)
        /\ \A id \in ids :
               LET sib == SiblingsOf(proj, id)
               IN  \A i, j \in 1..Len(sib) :
                       (i < j /\ sib[i] = id /\ sib[j] \in ids) =>
                           /\ pos(id) < pos(sib[j])
                           /\ \A d \in ids :
                                  id \in AncestorsOf(proj.items, d, Len(proj.items))
                                      => pos(d) < pos(sib[j])

\* C18: getVisibleItems returns, in depth-first order from rootItemIds, each
\* item below a root all of whose ancestors are expanded, once and as it is in
\* the project; a collapsed item is listed and nothing below it is, whatever
\* the flags below it
C18_VisibleItems ==
    vVisible # <<>> =>
        LET rows == vVisible[1]
            ids == {rows[k].id : k \in 1..Len(rows)}
        IN  /\ \A k \in 1..Len(rows) :
                   /\ MapHas(vProject.items, rows[k].id)
                   /\ rows[k] = vProject.items[MapIndex(vProject.items, rows[k].id)]
            /\ \A k, l \in 1..Len(rows) : rows[k].id = rows[l].id => k = l
            /\ \A i \in 1..Len(vProject.items) :
                   vProject.items[i].id \in ids <=> Listed(vProject, vProject.items[i].id)
            /\ \A i, j \in 1..Len(vProject.items) :
                   (/\ ~vProject.items[i].isExpanded
                    /\ vProject.items[i].id \in
                           AncestorsOf(vProject.items, vProject.items[j].id,
                                       Len(vProject.items)))
                       => vProject.items[j].id \notin ids
            /\ DepthFirst(vProject, rows)

\* a collapsed root is listed, and its expanded child, which has a child of
\* its own, is not
C18_Witness ==
    /\ vVisible # <<>>
    /\ \E i, j, k \in 1..Len(vProject.items) :
           /\ vProject.items[i].parentId = Null
           /\ ~vProject.items[i].isExpanded
           /\ vProject.items[j].parentId = vProject.items[i].id
           /\ vProject.items[j].isExpanded
           /\ vProject.items[k].parentId = vProject.items[j].id
           /\ \E r \in 1..Len(vVisible[1]) : vVisible[1][r].id = vProject.items[i].id
           /\ \A r \in 1..Len(vVisible[1]) :
                  vVisible[1][r].id \notin {vProject.items[j].id, vProject.items[k].id}

(***************************************************************************)
(* The heading cache of the graph labels (graphLabelManager.ts).           *)
(***************************************************************************)
\* the largest number of calls of getH1ForNode under way at once
MaxCalls == 2

NodeIds == {PathA, PathB}

\* the headings "Old Title" and "New Title" of the tests, as O and N
OldTitle == <<79>>
NewTitle == <<78>>

\* what resolveFile and getFirstH1 find for a node id: no file, a file
\* without a first-level heading, a file with the heading O or N
NoFile == [exists |-> FALSE, h1 |-> Null]
FileChoices == {NoFile} \cup {[exists |-> TRUE, h1 |-> h] : h \in {Null, OldTitle, NewTitle}}

\* a call slot in which no call of getH1ForNode has been made
NoCall == [pc |-> "idle", nodeId |-> Null, resolved |-> FALSE, h1 |-> Null,
           result |-> Null]

\* h1Cache.set(nodeId, h1)
CacheSet(cache, nodeId, h1) ==
    [n \in DOMAIN cache \cup {nodeId} |-> IF n = nodeId THEN h1 ELSE cache[n]]

\* h1Cache.delete(nodeId)
CacheDelete(cache, nodeId) == [n \in DOMAIN cache \ {nodeId} |-> cache[n]]

InitLabel ==
    /\ hHeadings \in [NodeIds -> FileChoices]
    /\ hCache = <<>>
    /\ hCalls = [c \in 1..MaxCalls |-> NoCall]
    /\ hFresh = {}
    /\ IdleExcept("label")

\* getH1ForNode(nodeId, resolveFile) up to its await: the answer from the
\* cache, or resolveFile and, for a file, the call of getFirstH1
CallGetH1ForNode(c, nodeId) ==
    /\ hCalls[c].pc \in {"idle", "returned"}
    /\ hCalls' = [hCalls EXCEPT ![c] =
           IF nodeId \in DOMAIN hCache
           THEN [pc |-> "returned", nodeId |-> nodeId, resolved |-> FALSE,
                 h1 |-> Null, result |-> hCache[nodeId]]
           ELSE IF ~hHeadings[nodeId].exists
           THEN [pc |-> "returned", nodeId |-> nodeId, resolved |-> TRUE,
                 h1 |-> Null, result |-> Null]
           ELSE [pc |-> "awaiting", nodeId |-> nodeId, resolved |-> TRUE,
                 h1 |-> Null, result |-> Null]]
    /\ hFresh' = hFresh \ {nodeId}
    /\ UNCHANGED <<hHeadings, hCache, notLabelVars>>

\* getFirstH1(file) finds the heading: in the metadata cache or, after
\* vault.read, in the content
GetFirstH1(c) ==
    /\ hCalls[c].pc = "awaiting"
    /\ hCalls' = [hCalls EXCEPT ![c].pc = "read",
                                ![c].h1 = hHeadings[hCalls[c].nodeId].h1]
    /\ UNCHANGED <<hHeadings, hCache, hFresh, notLabelVars>>

\* getH1ForNode after its await: the heading is cached and returned
ResumeGetH1ForNode(c) ==
    /\ hCalls[c].pc = "read"
    /\ hCache' = IF hCalls[c].h1 # Null
                 THEN CacheSet(hCache, hCalls[c].nodeId, hCalls[c].h1)
                 ELSE hCache
    /\ hCalls' = [hCalls EXCEPT ![c].pc = "returned", ![c].result = hCalls[c].h1,
                                ![c].h1 = Null]
    /\ UNCHANGED <<hHeadings, hFresh, notLabelVars>>

\* clearCache()
ClearCache ==
    /\ hCache' = <<>>
    /\ hFresh' = NodeIds
    /\ UNCHANGED <<hHeadings, hCalls, notLabelVars>>

\* invalidateFileCache(nodeId)
InvalidateFileCache(nodeId) ==
    /\ hCache' = CacheDelete(hCache, nodeId)
    /\ hFresh' = hFresh \cup {nodeId}
    /\ UNCHANGED <<hHeadings, hCalls, notLabelVars>>

\* the vault: the file of a node id is written, created or deleted
ModifyFile(nodeId, file) ==
    /\ hHeadings[nodeId] # file
    /\ hHeadings' = [hHeadings EXCEPT ![nodeId] = file]
    /\ UNCHANGED <<hCache, hCalls, hFresh, notLabelVars>>

NextLabel ==
    \/ \E c \in 1..MaxCalls, nodeId \in NodeIds : CallGetH1ForNode(c, nodeId)
    \/ \E c \in 1..MaxCalls : GetFirstH1(c)
    \/ \E c \in 1..MaxCalls : ResumeGetH1ForNode(c)
    \/ ClearCache
    \/ \E nodeId \in NodeIds : InvalidateFileCache(nodeId)
    \/ \E nodeId \in NodeIds, file \in FileChoices : ModifyFile(nodeId, file)

SpecLabel == InitLabel /\ [][NextLabel]_vars

(***************************************************************************)
(* Claims about the heading cache, checked under SpecLabel.                *)
(***************************************************************************)
\* a call answered from the cache: it did not resolve the file
FromCache(c, nodeId) ==
    /\ hCalls'[c].pc = "returned"
    /\ ~hCalls'[c].resolved
    /\ hCalls'[c].result = hCache[nodeId]
    /\ hCache' = hCache

\* C19: a call of getH1ForNode for a cached node id answers from the cache
\* without resolving the file; an entry goes only by invalidateFileCache of
\* its node id or by clearCache; once either was called for a node id, the
\* next call for it finds no entry, so resolves the file again and returns
\* its current heading; invalidateFileCache leaves the other entries as
\* they are
C19_CachedHeading ==
    /\ [](\A nodeId \in hFresh : nodeId \notin DOMAIN hCache)
    /\ [][/\ \A c \in 1..MaxCalls, nodeId \in NodeIds :
                 (CallGetH1ForNode(c, nodeId) /\ nodeId \in DOMAIN hCache)
                     => FromCache(c, nodeId)
          /\ \A nodeId \in DOMAIN hCache :
                 nodeId \notin DOMAIN hCache' => nodeId \in hFresh'
          /\ \A nodeId \in NodeIds :
                 InvalidateFileCache(nodeId)
                     => \A other \in NodeIds \ {nodeId} :
                            /\ other \in DOMAIN hCache <=> other \in DOMAIN hCache'
                            /\ other \in DOMAIN hCache => hCache'[other] = hCache[other]
         ]_vars

(***************************************************************************)
(* The resolution of a parent reference (wbsParser.ts).                    *)
(***************************************************************************)
\* the ids of the items: paths of markdown files that parseFolder("p") admits
\* p/a.md, p/a.md.md, p/s/a.md, p/pa.md, pa.md, pa.md.md, p/s/pa.md, p/a.mdb.md
ParentItemIds ==
    {PathA, PathA \o DotMd,
     <<112, 47, 115, 47, 97, 46, 109, 100>>,
     <<112, 47, 112, 97, 46, 109, 100>>,
     <<112, 97, 46, 109, 100>>,
     <<112, 97, 46, 109, 100, 46, 109, 100>>,
     <<112, 47, 115, 47, 112, 97, 46, 109, 100>>,
     <<112, 47, 97, 46, 109, 100, 98, 46, 109, 100>>}

\* the raw targets: a, a.md, pa, pa.md, p/a.md, a.mdb, ab.md, z
ParentTargets ==
    {<<97>>, <<97, 46, 109, 100>>, <<112, 97>>, <<112, 97, 46, 109, 100>>, PathA,
     <<97, 46, 109, 100, 98>>, <<97, 98, 46, 109, 100>>, <<122>>}

\* the items maps: up to MaxItems items of distinct ids, in any insertion order
ParentMaps ==
    UNION {{[i \in 1..n |-> createDefaultWBSItem(ids[i])] :
               ids \in {s \in [1..n -> ParentItemIds] :
                           \A i, j \in 1..n : i # j => s[i] # s[j]}} :
           n \in 0..MaxItems}

InitParent ==
    /\ dItems \in ParentMaps
    /\ dParentId \in ParentTargets
    /\ dResolved = <<>>
    /\ IdleExcept("parent")

\* resolveRelationships: the parent reference of an item is resolved
ResolveParentPath ==
    /\ dResolved' = <<resolveParentPath(dParentId, Folder, dItems)>>
    /\ UNCHANGED <<dItems, dParentId, notParentVars>>

NextParent == ResolveParentPath

SpecParent == InitParent /\ [][NextParent]_vars

(***************************************************************************)
(* Claims about the parent reference, checked under SpecParent.            *)
(***************************************************************************)
\* the base filename of a path without its extension: what follows the last
\* "/", up to the last "."
BaseFilename(path) ==
    LET name == LastSegment(path)
        dots == {i \in 1..Len(name) : name[i] = 46}
    IN  IF dots = {} THEN name
        ELSE SubSeq(name, 1, (CHOOSE i \in dots : \A j \in dots : j <= i) - 1)

\* the candidates (a) to (d) of a raw target, in their order
ParentCandidates(target, folderPath) ==
    <<target, folderPath \o Slash \o target \o DotMd, folderPath \o Slash \o target,
      target \o DotMd>>

\* C20: resolveParentPath returns the first of (a) the raw target, (b)
\* folder/target.md, (c) folder/target, (d) target.md that is an item id; when
\* none is, (e) the first item id whose base filename without extension is
\* the raw target; and null when there is none
C20_ParentPath ==
    dResolved # <<>> =>
        LET cands == ParentCandidates(dParentId, Folder)
            hit == {k \in 1..4 : MapHas(dItems, cands[k])}
            named == {i \in 1..Len(dItems) : BaseFilename(dItems[i].id) = dParentId}
        IN  dResolved[1] = IF hit # {} THEN cands[Min(hit)]
                           ELSE IF named # {} THEN dItems[Min(named)].id
                           ELSE Null

(***************************************************************************)
(* Authored WBS numbers (wbsParser.ts).                                    *)
(***************************************************************************)
\* the wbs-number property of a note: none, the strings "1" and "X.7", and
\* the YAML number 2
AuthoredChoices == {Undefined, Str(<<49>>), Str(<<88, 46, 55>>), Num(2)}

\* the listings of up to MaxFiles of the notes a, b, c, each without a parent
\* or with the parent a or b, and with any of the authored choices
AuthoredNotes ==
    {Note(p, par, w) : p \in {PathA, PathB, PathC},
                       par \in {Undefined, Str(<<91, 91, 97, 93, 93>>),
                                Str(<<91, 91, 98, 93, 93>>)},
                       w \in AuthoredChoices}

NumberVaults ==
    UNION {{v \in [1..n -> AuthoredNotes] :
               \A i \in 1..(n - 1) : StrLess(v[i].path, v[i + 1].path)} :
           n \in 1..MaxFiles}

InitNumber ==
    /\ vault \in NumberVaults
    /\ project = NoProject
    /\ validation = NoValidation
    /\ IdleExcept("wbs")

SpecNumber == InitNumber /\ [][NextWBS]_vars

(***************************************************************************)
(* Claims about authored numbers, checked under SpecNumber.                *)
(***************************************************************************)
\* the note authors its number: its wbs-number property is a string
Authors(note) == IsString(note.wbsNumber) /\ note.wbsNumber.s # <<>>

\* the siblings of an item, in their order: the childIds of its parent, or
\* rootItemIds for a root
SiblingList(it) ==
    IF it.id \in RootSet THEN project.rootItemIds
    ELSE LET parents == {p \in Items : p.id = it.parentId}
         IN  IF parents = {} THEN <<>> ELSE (CHOOSE p \in parents : TRUE).childIds

\* the number of the parent followed by ".", or nothing for a root
NumberPrefix(it) ==
    IF it.id \in RootSet THEN <<>>
    ELSE LET parents == {p \in Items : p.id = it.parentId}
         IN  IF parents = {} THEN <<>>
             ELSE (CHOOSE p \in parents : TRUE).wbsNumber \o <<46>>

\* C21: the item of a note that authors a wbs-number has exactly that string;
\* its k-th child, unless it authors one itself, has that string, a dot and
\* k; and each of its siblings that authors none has the number of the common
\* parent, a dot and its position among all the siblings, the authored ones
\* counted (the position alone among roots)
C21_AuthoredNumbers ==
    Built =>
        \A it \in Items :
            Authors(NoteOf(it.id)) =>
                /\ it.wbsNumber = NoteOf(it.id).wbsNumber.s
                /\ \A k \in 1..Len(it.childIds) : \A c \in Items :
                       (c.id = it.childIds[k] /\ ~Authors(NoteOf(c.id)))
                           => c.wbsNumber = it.wbsNumber \o <<46>> \o NatToString(k)
                /\ \A k \in 1..Len(SiblingList(it)) : \A sib \in Items :
                       (sib.id = SiblingList(it)[k] /\ ~Authors(NoteOf(sib.id)))
                           => sib.wbsNumber = NumberPrefix(sib) \o NatToString(k)

(***************************************************************************)
(* Claims about the completion table, checked under SpecParseFile.         *)
(***************************************************************************)
\* a string that, trimmed and lower-cased, is none of the given ones
StringOtherThan(v, strings) == v.t = "string" /\ ToLowerCase(Trim(v.s)) \notin strings

\* the completion table as stated: true, a number other than 0, a string other
\* than '', 'false' and '0', a non-empty collection, an object
StatedTable(v) ==
    \/ v = Bool(TRUE)
    \/ v.t = "number" /\ v # Num(0)
    \/ StringOtherThan(v, {<<>>, <<102, 97, 108, 115, 101>>, <<48>>})
    \/ v.t = "array" /\ Len(v.a) > 0
    \/ v.t = "object"

\* the completion table with the rule for collections: a collection counts
\* when one of its elements is true, a number other than 0, a string other
\* than '', 'false', '0' and '- [ ]', or itself a collection or an object
ElementTable(v) ==
    \/ v.t = "array" /\ \E i \in 1..Len(v.a) :
          \/ v.a[i] = Bool(TRUE)
          \/ v.a[i].t = "number" /\ v.a[i] # Num(0)
          \/ StringOtherThan(v.a[i], {<<>>, <<102, 97, 108, 115, 101>>, <<48>>,
                                      <<45, 32, 91, 32, 93>>})
          \/ v.a[i].t \in {"array", "object"}
    \/ v.t # "array" /\ StatedTable(v)

\* the status and the progress a note declares beside its completion field
DeclaredStatus(note) ==
    IF IsString(note.status) /\ note.status.s # <<>>
    THEN normalizeStatus(note.status.s) ELSE "not-started"

DeclaredProgress(note) ==
    IF IsNumber(note.progress) THEN MathMax(0, MathMin(100, note.progress)) ELSE Num(0)

\* the item of the note is completed with progress 100 exactly when the
\* completion field counts under the table, and is as declared otherwise
FollowsTable(counts) ==
    IF counts
    THEN project.items[1].status = "completed" /\ project.items[1].progress = Num(100)
    ELSE /\ project.items[1].status = DeclaredStatus(vault[1])
         /\ project.items[1].progress = DeclaredProgress(vault[1])

\* C22, as stated: the completion field counts exactly for true, a non-zero
\* number, a string other than '', 'false' and '0' (trimmed, any case), a
\* non-empty collection and an object; otherwise status and progress are
\* as declared
C22_StatedTable == Built => FollowsTable(StatedTable(vault[1].completed))

\* C22, amended: as stated, except that a collection counts only when one of
\* its elements does (for a string element, '- [ ]' does not count either)
C22_CompletionTable == Built => FollowsTable(ElementTable(vault[1].completed))

\* a note with the completion field [false, '- [ ]'], status in-progress and
\* progress 30 was parsed as in-progress with progress 30
C22_Witness ==
    /\ Built
    /\ vault[1].completed = Arr(<<Bool(FALSE), Str(<<45, 32, 91, 32, 93>>)>>)
    /\ vault[1].progress = Num(30)
    /\ project.items[1].status = "in-progress"
    /\ project.items[1].progress = Num(30)

(***************************************************************************)
(* The recursive walks, call by call: assignNumber of assignWBSNumbers,    *)
(* calculateLevel of calculateLevels (wbsParser.ts) and calculateProgress  *)
(* (wbsDataModel.ts). A frame is one call: the item it is about (none for  *)
(* a loop over a list of ids), the ids it loops over and the index of the  *)
(* next one.                                                               *)
(***************************************************************************)
\* the depth of the call stack at which the engine raises RangeError; any
\* depth that no walk over MaxFiles items needs
StackLimit == MaxFiles + 3

\* the ids of all items, in place of the roots
WalkRoots_All(proj) == [i \in 1..Len(proj.items) |-> proj.items[i].id]

\* the ids the walks of parseFolder start from
WalkRoots(proj) == proj.rootItemIds

\* item.childIds of the item with the given id; nothing for an id of no item
ChildIdsOf(items, id) ==
    IF MapHas(items, id) THEN items[MapIndex(items, id)].childIds ELSE <<>>

Frame(id, ids) == [id |-> id, ids |-> ids, k |-> 1]

\* the project as each walk of parseFolder finds it
Resolved(files) ==
    resolveRelationships([id |-> Folder, rootItemIds |-> <<>>,
                          items |-> ParseFiles(<<>>, files, Folder, 1)], Folder)

InitWalk ==
    /\ \E v \in ViewVaults :
          \/ /\ wKind = "numbers"
             /\ wItems = Resolved(v).items
             /\ wStack = <<Frame(Null, WalkRoots(Resolved(v)))>>
          \/ /\ wKind = "levels"
             /\ wItems = assignWBSNumbers(Resolved(v)).items
             /\ wStack = <<Frame(Null, WalkRoots(assignWBSNumbers(Resolved(v))))>>
          \/ /\ wKind = "progress"
             /\ wItems = parseFolder(v, Folder).items
             /\ \E i \in 1..Len(wItems) :
                   wStack = <<Frame(wItems[i].id, wItems[i].childIds)>>
    /\ wState = "running"
    /\ IdleExcept("walk")

\* the innermost call and the id its loop has come to
Top == wStack[Len(wStack)]
Here == Top.ids[Top.k]

\* the loop of the innermost call makes a call for the id it has come to:
\* assignNumber for an item with children, calculateLevel for every id,
\* calculateProgress for every id of an item
Calls ==
    /\ wState = "running"
    /\ Top.k <= Len(Top.ids)
    /\ CASE wKind = "numbers" -> Len(ChildIdsOf(wItems, Here)) > 0
         [] wKind = "levels" -> TRUE
         [] OTHER -> MapHas(wItems, Here)

\* the callee: assignNumber loops over the sorted childIds
Callee ==
    Frame(Here, IF wKind = "numbers" THEN SortStrings(ChildIdsOf(wItems, Here))
                ELSE ChildIdsOf(wItems, Here))

Advanced == [wStack EXCEPT ![Len(wStack)].k = Top.k + 1]

\* a recursive call
WalkCall ==
    /\ Calls
    /\ Len(wStack) < StackLimit
    /\ wStack' = Append(Advanced, Callee)
    /\ UNCHANGED <<wItems, wKind, wState, notWalkVars>>

\* a recursive call with the stack exhausted: RangeError
WalkOverflow ==
    /\ Calls
    /\ Len(wStack) = StackLimit
    /\ wState' = "overflow"
    /\ UNCHANGED <<wItems, wKind, wStack, notWalkVars>>

\* the loop passes an id without a call
WalkSkip ==
    /\ wState = "running"
    /\ Top.k <= Len(Top.ids)
    /\ ~Calls
    /\ wStack' = Advanced
    /\ UNCHANGED <<wItems, wKind, wState, notWalkVars>>

\* the loop of the innermost call is done: the call returns
WalkReturn ==
    /\ wState = "running"
    /\ Top.k > Len(Top.ids)
    /\ IF Len(wStack) = 1
       THEN wState' = "returned" /\ UNCHANGED wStack
       ELSE wStack' = SubSeq(wStack, 1, Len(wStack) - 1) /\ UNCHANGED wState
    /\ UNCHANGED <<wItems, wKind, notWalkVars>>

NextWalk == WalkCall \/ WalkOverflow \/ WalkSkip \/ WalkReturn

\* a call under way goes on
SpecWalk == InitWalk /\ [][NextWalk]_vars /\ WF_vars(NextWalk)

(***************************************************************************)
(* Claims about parent cycles, checked under SpecWalk.                     *)
(***************************************************************************)
\* the item is its own ancestor
OnCycle(items, id) == id \in AncestorsOf(items, id, Len(items))

HasCycle(items) == \E i \in 1..Len(items) : OnCycle(items, items[i].id)

\* C23, as stated: with a parent cycle among the items, numbering and
\* leveling recurse without bound, and calculateProgress started on an item
\* of a cycle does not return
C23_Unbounded ==
    /\ (wKind \in {"numbers", "levels"} /\ HasCycle(wItems)) => wState # "returned"
    /\ (wKind = "progress" /\ OnCycle(wItems, wStack[1].id)) => wState # "returned"

\* C23, amended: numbering and leveling never nest deeper than there are
\* items and always return, parent cycles or not; calculateProgress exhausts
\* the stack exactly when it is started on an item of a cycle, and returns
\* otherwise
C23_CycleWalks ==
    /\ [](wKind \in {"numbers", "levels"} =>
              wState # "overflow" /\ Len(wStack) <= Len(wItems) + 1)
    /\ [](wKind = "progress" =>
              /\ wState = "returned" => ~OnCycle(wItems, wStack[1].id)
              /\ wState = "overflow" => OnCycle(wItems, wStack[1].id))
    /\ <>(wState # "running")

\* leveling has returned on a project in which two items are each other's
\* parent
C23_Witness ==
    /\ wKind = "levels"
    /\ wState = "returned"
    /\ \E i, j \in 1..Len(wItems) :
          i # j /\ wItems[i].parentId = wItems[j].id /\ wItems[j].parentId = wItems[i].id

(***************************************************************************)
(* Claims about the insertion order of the options, checked under          *)
(* SpecScore.                                                              *)
(***************************************************************************)
\* C24: the array rankOptions returned (the options in their order, each
\* with its rank) is the one it returns for every other insertion order of
\* the same options in the map, ties in the total score included
C24_RankOrderIndependent ==
    sRanked # <<>> =>
        \A options \in Orderings(sOptions) :
            rankOptions(options, sCriteria, sMaxScore) = sRanked[1]

(***************************************************************************)
(* Claims about options without scores, checked under SpecScore.           *)
(***************************************************************************)
\* the sum of the weights of the lower-is-better criteria among the k first
RECURSIVE InvertedWeight(_)
InvertedWeight(k) ==
    IF k = 0 THEN 0
    ELSE InvertedWeight(k - 1)
         + (IF sCriteria[k].direction = "lower-is-better" THEN sCriteria[k].weight ELSE 0)

\* C25, as stated: an option whose scores map is empty has the total score 0,
\* whatever the criteria
C25_EmptyScoresZero ==
    sScores # <<>> =>
        \A i \in 1..Len(sOptions) :
            DOMAIN sOptions[i].scores = {} => sScores[1][i].totalScore = Num(0)

\* C25, amended: an option whose scores map is empty has the total score
\* maxScore x the sum of the weights of the lower-is-better criteria, which
\* is 0 when no criterion is lower-is-better
C25_EmptyScores ==
    sScores # <<>> =>
        \A i \in 1..Len(sOptions) :
            DOMAIN sOptions[i].scores = {} =>
                /\ sScores[1][i].totalScore = Num(sMaxScore * InvertedWeight(Len(sCriteria)))
                /\ (\A k \in 1..Len(sCriteria) : sCriteria[k].direction # "lower-is-better")
                       => sScores[1][i].totalScore = Num(0)

\* an option without scores, under a lower-is-better criterion of weight 3
\* and a criterion of weight 5, has the total score 3 x maxScore
C25_Witness ==
    /\ sScores # <<>>
    /\ Len(sCriteria) = 2
    /\ sCriteria[1].direction = "lower-is-better"
    /\ sCriteria[2].direction # "lower-is-better"
    /\ \E i \in 1..Len(sOptions) :
          /\ DOMAIN sOptions[i].scores = {}
          /\ sScores[1][i].totalScore = Num(3 * sMaxScore)

(***************************************************************************)
(* The incremental update of a loaded project: a note of the folder is     *)
(* modified or created, and WBSView.onFileChange patches the project with  *)
(* updateProjectWithFile instead of parsing the folder again.              *)
(***************************************************************************)
\* WBSParser.updateProjectWithFile(project, file, folderPath)
updateProjectWithFile(proj, file, folderPath) ==
    LET set == MapSet(proj.items, file.path, parseFile(file))
        cleared == [i \in 1..Len(set) |-> [set[i] EXCEPT !.childIds = <<>>]]
        emptied == [proj EXCEPT !.items = cleared, !.rootItemIds = <<>>]
    IN  calculateLevels(assignWBSNumbers(resolveRelationships(emptied, folderPath)))

\* the parent property of a patched note: none, "[[a]]", "[[b]]"
PatchParents == {Undefined, Str(<<91, 91, 97, 93, 93>>), Str(<<91, 91, 98, 93, 93>>)}
PatchNotes == {Note(p, par, Undefined) : p \in {PathA, PathB, PathC}, par \in PatchParents}

InitPatch ==
    /\ vault \in UNION {{v \in [1..n -> PatchNotes] : DistinctPaths(v)} : n \in 1..(MaxFiles - 1)}
    /\ project = NoProject
    /\ validation = NoValidation
    /\ IdleExcept("wbs")

\* the vault's modify event on a note of the loaded folder, then
\* WBSView.onFileChange with a current project
ModifyNote(i, note) ==
    /\ project # NoProject
    /\ i \in 1..Len(vault)
    /\ note.path = vault[i].path
    /\ note # vault[i]
    /\ vault' = [vault EXCEPT ![i] = note]
    /\ project' = updateProjectWithFile(project, note, Folder)
    /\ UNCHANGED <<validation, notWbsVars>>

\* the vault's create event on a new note of the loaded folder, then
\* WBSView.onFileChange with a current project
CreateNote(note) ==
    /\ project # NoProject
    /\ Len(vault) < MaxFiles
    /\ \A i \in 1..Len(vault) : vault[i].path # note.path
    /\ vault' = Append(vault, note)
    /\ project' = updateProjectWithFile(project, note, Folder)
    /\ UNCHANGED <<validation, notWbsVars>>

NextPatch ==
    \/ ParseFolder
    \/ \E i \in 1..MaxFiles, note \in PatchNotes : ModifyNote(i, note)
    \/ \E note \in PatchNotes : CreateNote(note)

SpecPatch == InitPatch /\ [][NextPatch]_vars

\* the relationships, numbers and levels of two projects are the same
SameTree(p, q) ==
    /\ p.rootItemIds = q.rootItemIds
    /\ {p.items[i].id : i \in 1..Len(p.items)} = {q.items[i].id : i \in 1..Len(q.items)}
    /\ \A i \in 1..Len(p.items) : \A j \in 1..Len(q.items) :
          p.items[i].id = q.items[j].id =>
              /\ p.items[i].parentId = q.items[j].parentId
              /\ p.items[i].childIds = q.items[j].childIds
              /\ p.items[i].wbsNumber = q.items[j].wbsNumber
              /\ p.items[i].level = q.items[j].level

\* C26: the project patched by updateProjectWithFile after each change of a
\* note has the parentId, childIds, rootItemIds, wbsNumber and level that a
\* fresh parseFolder over the current notes yields
C26_PatchAgrees ==
    Built => SameTree(project, parseFolder(vault, Folder))

(***************************************************************************)
(* Claims about the roots and the numbers of a built project, checked      *)
(* under SpecWBS.                                                          *)
(***************************************************************************)
\* the ids visited from the k-th id of a list on, through childIds, in at
\* most depth nested visits
RECURSIVE VisitedFrom(_, _, _, _)
VisitedFrom(items, ids, k, depth) ==
    IF k > Len(ids) \/ depth = 0 THEN <<>>
    ELSE (IF ~MapHas(items, ids[k]) THEN <<>>
          ELSE <<ids[k]>> \o VisitedFrom(items, items[MapIndex(items, ids[k])].childIds,
                                          1, depth - 1))
         \o VisitedFrom(items, ids, k + 1, depth)

Visited(proj) == VisitedFrom(proj.items, proj.rootItemIds, 1, Len(proj.items) + 1)

\* the item is on a parent cycle or below one
CycleAbove(items, id) ==
    \E a \in {id} \cup AncestorsOf(items, id, Len(items)) : OnCycle(items, a)

\* C27: without a cycle among the resolved parents of a non-empty project
\* there is a root, every item is visited exactly once from rootItemIds
\* through childIds and has a non-empty wbsNumber; and a non-empty project
\* without a root has every item on a parent cycle or below one
C27_RootsReachAll ==
    (Built /\ Len(project.items) > 0) =>
        /\ ~HasCycle(project.items) =>
              /\ Len(project.rootItemIds) >= 1
              /\ \A it \in Items :
                    /\ Cardinality({k \in 1..Len(Visited(project)) :
                                       Visited(project)[k] = it.id}) = 1
                    /\ it.wbsNumber # <<>>
        /\ Len(project.rootItemIds) = 0 =>
              \A it \in Items : CycleAbove(project.items, it.id)

\* three notes without a cycle, one of them two levels below the root
C27_Witness ==
    /\ Built
    /\ Len(project.items) = 3
    /\ ~HasCycle(project.items)
    /\ \E it \in Items : it.level = 2 /\ it.wbsNumber # <<>>

\* two notes that are each other's parent: a project without a root
C27_WitnessNoRoot ==
    /\ Built
    /\ Len(project.items) >= 2
    /\ Len(project.rootItemIds) = 0


\* generateWBSNumber(item, items, siblingIndex) of the WBS data model
generateWBSNumber(item, items, siblingIndex) ==
    IF ~Truthy(item.parentId) THEN NatToString(siblingIndex + 1)
    ELSE IF ~MapHas(items, item.parentId) THEN NatToString(siblingIndex + 1)
    ELSE items[MapIndex(items, item.parentId)].wbsNumber \o <<46>>
             \o NatToString(siblingIndex + 1)

\* the dot-separated components of a number
Components(number) == 1 + Cardinality({k \in 1..Len(number) : number[k] = 46})

\* the items below a root
Reachable == {it \in Items : BelowRoot(project, it.id)}

\* C28: when no note authors a wbs-number, the numbers of the items below
\* the roots are pairwise distinct, each has level + 1 components, and the
\* number of a child is the number of its parent extended by one component
C28_NumbersOfReachable ==
    (Built /\ NoAuthoredNumber) =>
        /\ \A x, y \in Reachable : x.id # y.id => x.wbsNumber # y.wbsNumber
        /\ \A it \in Reachable :
              it.wbsNumber # <<>> /\ Components(it.wbsNumber) = it.level + 1
        /\ \A c, p \in Reachable :
              c.parentId = p.id =>
                  /\ Components(c.wbsNumber) = Components(p.wbsNumber) + 1
                  /\ \E siblingIndex \in 0..(Len(p.childIds) - 1) :
                         c.wbsNumber = generateWBSNumber(c, project.items, siblingIndex)

\* three numbered notes, one of them two levels below the root with a number
\* of three components
C28_Witness ==
    /\ Built
    /\ NoAuthoredNumber
    /\ \E x, y, z \in Reachable :
          /\ y.parentId = x.id /\ z.parentId = y.id
          /\ Components(z.wbsNumber) = 3


(***************************************************************************)
(* The heading cache under the modify events of the vault alone: every     *)
(* write of a file is followed at once by invalidateFileCache of its path. *)
(***************************************************************************)
\* the handler of the vault's modify event: the file was written, and its
\* cache entry is invalidated
OnModify(nodeId, file) ==
    /\ hHeadings[nodeId].exists /\ file.exists
    /\ hHeadings[nodeId] # file
    /\ hHeadings' = [hHeadings EXCEPT ![nodeId] = file]
    /\ hCache' = CacheDelete(hCache, nodeId)
    /\ hFresh' = hFresh \cup {nodeId}
    /\ UNCHANGED <<hCalls, notLabelVars>>

NextModify ==
    \/ \E c \in 1..MaxCalls, nodeId \in NodeIds : CallGetH1ForNode(c, nodeId)
    \/ \E c \in 1..MaxCalls : GetFirstH1(c)
    \/ \E c \in 1..MaxCalls : ResumeGetH1ForNode(c)
    \/ \E nodeId \in NodeIds, file \in FileChoices : OnModify(nodeId, file)

SpecModify == InitLabel /\ [][NextModify]_vars

\* C29: a heading read before invalidateFileCache(nodeId) is not left in the
\* cache by a call of getH1ForNode that was awaiting the read: every cached
\* heading is the one the file has since its last write, and a call that
\* starts after the invalidation and is answered from the cache returns it
C29_InvalidateDuringRead ==
    /\ [](\A nodeId \in DOMAIN hCache : hCache[nodeId] = hHeadings[nodeId].h1)
    /\ [][\A c \in 1..MaxCalls, nodeId \in NodeIds :
              (CallGetH1ForNode(c, nodeId) /\ nodeId \in hFresh /\ ~hCalls'[c].resolved)
                  => hCalls'[c].result = hHeadings[nodeId].h1]_vars

(***************************************************************************)
(* The debounced refresh of WBSView (wbsView.ts): onFileChange arms a      *)
(* timer of 250 ms that calls refresh; the event loop fires an armed timer *)
(* at some moment after it was armed.                                      *)
(***************************************************************************)
\* the largest number of onFileChange calls
MaxChanges == 4

\* refreshDebounceTimer = null
NoTimer == 0

\* clearTimeout(id) leaving the timer armed
ClearTimeout_Keep(timers, id) == timers

\* clearTimeout(id) on the armed timers
ClearTimeout(timers, id) == timers \ {id}

\* the view after its constructor, showing nothing, a base file or a folder
InitTimer ==
    /\ isInitialized = FALSE
    /\ refreshDebounceTimer = NoTimer
    /\ tTimers = {}
    /\ tChanges = 0
    /\ tStage = "constructed"
    /\ tSource \in {"none", "base", "folder"}
    /\ tRefreshed = 0
    /\ tLoaded = "none"
    /\ IdleExcept("timer")

\* WBSView.onOpen()
OnOpen ==
    /\ tStage = "constructed"
    /\ isInitialized' = TRUE
    /\ tStage' = "open"
    /\ UNCHANGED <<refreshDebounceTimer, tTimers, tChanges, tSource, tRefreshed, tLoaded,
                   notTimerVars>>

\* WBSView.onClose()
OnClose ==
    /\ tStage = "open"
    /\ tTimers' = IF refreshDebounceTimer # NoTimer
                  THEN ClearTimeout(tTimers, refreshDebounceTimer) ELSE tTimers
    /\ tStage' = "closed"
    /\ UNCHANGED <<isInitialized, refreshDebounceTimer, tChanges, tSource, tRefreshed,
                   tLoaded, notTimerVars>>

\* WBSView.onFileChange(file); setTimeout hands out the next timer id
OnFileChange ==
    /\ tChanges < MaxChanges
    /\ tChanges' = tChanges + 1
    /\ IF ~isInitialized
       THEN UNCHANGED <<refreshDebounceTimer, tTimers, tRefreshed>>
       ELSE /\ refreshDebounceTimer' = tChanges + 1
            /\ tTimers' = (IF refreshDebounceTimer # NoTimer
                           THEN ClearTimeout(tTimers, refreshDebounceTimer) ELSE tTimers)
                          \cup {tChanges + 1}
            /\ tRefreshed' = 0
    /\ UNCHANGED <<isInitialized, tStage, tSource, tLoaded, notTimerVars>>

\* the event loop fires an armed timer: void this.refresh()
FireTimer(id) ==
    /\ id \in tTimers
    /\ tTimers' = tTimers \ {id}
    /\ tRefreshed' = tRefreshed + 1
    /\ tLoaded' = tSource
    /\ UNCHANGED <<isInitialized, refreshDebounceTimer, tChanges, tStage, tSource,
                   notTimerVars>>

Fire == \E id \in 1..MaxChanges : FireTimer(id)

NextTimer == OnOpen \/ OnClose \/ OnFileChange \/ Fire

\* an armed timer fires: the event loop runs every timer that is due
SpecTimer == InitTimer /\ [][NextTimer]_vars /\ WF_vars(Fire)

(***************************************************************************)
(* Claims about the debounced refresh, checked under SpecTimer.            *)
(***************************************************************************)
\* C30: once the view is opened, every onFileChange cancels the armed timer
\* and arms a new one, so at most one refresh is pending, and the changes are
\* followed by one refresh, fired by the timer of the last change; before
\* onOpen no timer is armed; onClose leaves no timer armed
C30_DebouncedRefresh ==
    /\ [](Cardinality(tTimers) <= 1 /\ tTimers \subseteq {refreshDebounceTimer})
    /\ [](tRefreshed <= 1)
    /\ [](~isInitialized => (tTimers = {} /\ refreshDebounceTimer = NoTimer /\ tRefreshed = 0))
    /\ [][/\ (OnFileChange /\ isInitialized) =>
                 (tTimers' = {tChanges + 1} /\ refreshDebounceTimer' \notin tTimers)
          /\ OnClose => tTimers' = {}
          /\ \A id \in 1..MaxChanges :
                 FireTimer(id) => (id = refreshDebounceTimer /\ tRefreshed' = 1)]_vars
    /\ (tTimers # {} ~> (tTimers = {} /\ (tRefreshed = 1 \/ tStage = "closed")))

\* three changes of an open view were followed by one refresh, fired by the
\* timer of the third
C30_Witness ==
    /\ tStage = "open"
    /\ tChanges = 3
    /\ refreshDebounceTimer = 3
    /\ tTimers = {}
    /\ tRefreshed = 1
    /\ tLoaded = "folder"

====
